---- MODULE Spec2Model ----
(***************************************************************************)
(* A model of the colour_matcher pipeline.                                 *)
(*                                                                         *)
(*   ColorMatcher    nearest-neighbour matching with a confidence score    *)
(*   ColorValidator  OCR-failure classification and positional correction  *)
(*   SwatchExtractor the text rule that turns recognised text into a       *)
(*                   style number and a style name                         *)
(*                                                                         *)
(* Conventions.                                                            *)
(*   - A JavaScript string is a sequence of one-character strings, so that *)
(*     length, substring, trim, split and the regular expressions of the   *)
(*     source are computed and not assumed.                                *)
(*   - A Euclidean distance sqrt(n), n a sum of three squared channel      *)
(*     differences, is carried as n itself (sqrt is strictly monotone on   *)
(*     these integers, in exact and in double arithmetic alike).  A        *)
(*     number rounded by Math.round(v * 100) / 100 is carried as the       *)
(*     integer v * 100 (hundredths).                                       *)
(*   - A confidence is a record [nan, val]: val in hundredths, nan for     *)
(*     the IEEE NaN that 0 / 0 produces.                                   *)
(*   - null is the model value Null.                                       *)
(***************************************************************************)
EXTENDS Integers, Sequences, FiniteSets, TLC

VARIABLES
    referenceColors,   \* ColorMatcher.referenceColors
    maxDistance,       \* ColorMatcher.maxDistance
    swatches,          \* argument of the matchSwatchesWithReferences call, Null before
    matchResult,       \* its ColorMatchingResult, Null before
    extractedColors,   \* the ReferenceColor[] handed to the validator
    validationResult,  \* ValidationResult of validateAndCorrect, Null before
    validatorLog,      \* indices it logged as "Keeping successful OCR result"
    correctedColors,   \* list returned by applyCorrections, Null before
    revalidation,      \* ValidationResult of validating that list again, Null before
    ocrText,           \* result.data.text of the recognition call of a region
    swatchOut,         \* what extractSwatchFromBoundary returned for it
    swatchRun,         \* locals of extractRowStartingPortions and of its row loop
    referenceRun,      \* locals of extractReferenceColorsWithRedBoxes and of its box loop
    boxScan,           \* image and result of detectColorBoxBoundaries
    colorSample,       \* sampled colour and the records made from it
    pixel,             \* a pixel and what the two isWhiteOrNearWhite say of it
    rowScan,           \* scan column and locals of detectRows
    lineScan,          \* scan line and locals of a horizontal boundary scan
    anchorScan         \* image and locals of findRedAnchorBoxes

vars == <<referenceColors, maxDistance, swatches, matchResult,
          extractedColors, validationResult, validatorLog, correctedColors,
          revalidation, ocrText, swatchOut,
          swatchRun, referenceRun, boxScan, colorSample, pixel, rowScan, lineScan, anchorScan>>

matcherVars == <<referenceColors, maxDistance, swatches, matchResult>>
validatorVars == <<extractedColors, validationResult, validatorLog, correctedColors,
                   revalidation>>
swatchTextVars == <<ocrText, swatchOut>>
\* The extraction runs, each in a variable of its own holding the locals of
\* the method under their source names; Null while the run is not modelled.
runVars == <<swatchRun, referenceRun, boxScan, colorSample, pixel, rowScan, lineScan, anchorScan>>

Null == [null |-> TRUE]
\* A value that is present, where Null stands for "not yet".
Some(x) == [some |-> x]

\* No extraction run is under way.
RunsIdle ==
    /\ swatchRun = Null
    /\ referenceRun = Null
    /\ boxScan = Null
    /\ colorSample = Null
    /\ pixel = Null
    /\ rowScan = Null
    /\ lineScan = Null
    /\ anchorScan = Null

\* Every sequence over S of length at most n.
SeqsUpTo(S, n) == UNION {[1..k -> S] : k \in 0..n}

Max(a, b) == IF a >= b THEN a ELSE b
Min(a, b) == IF a <= b THEN a ELSE b

(***************************************************************************)
(* Bounds of the model.                                                    *)
(***************************************************************************)
MaxPalette == 2     \* longest reference palette
MaxSwatches == 2    \* most swatches in one matching call
MaxColors == 2      \* most colours in the swatch of a one-swatch call
MaxEntries == 2     \* most entries in a list handed to the validator
MaxLines == 3       \* most lines in a recognised text

(***************************************************************************)
(* Strings used by the matcher.                                            *)
(***************************************************************************)
StrUNKNOWN == <<"U", "N", "K", "N", "O", "W", "N">>
StrNoMatchFound ==
    <<"N", "o", " ", "M", "a", "t", "c", "h", " ", "F", "o", "u", "n", "d">>
StrNA == <<"N", "/", "A">>
StrUnknown == <<"U", "n", "k", "n", "o", "w", "n">>

(***************************************************************************)
(* Exact arithmetic for Math.sqrt and Math.round.                          *)
(***************************************************************************)
\* The largest r in lo..hi with r * r <= n, given lo * lo <= n.
RECURSIVE ISqrtBetween(_, _, _)
ISqrtBetween(n, lo, hi) ==
    IF lo >= hi THEN lo
    ELSE LET mid == (lo + hi + 1) \div 2
         IN  IF mid * mid <= n THEN ISqrtBetween(n, mid, hi)
                               ELSE ISqrtBetween(n, lo, mid - 1)

\* floor(sqrt(n)) with its remainder, for 0 <= n < 2^20.
SqrtRem(n) ==
    LET r == ISqrtBetween(n, 0, 1023)
    IN  [root |-> r, rem |-> n - r * r]

\* From floor(sqrt(n)) and its remainder to those of 100 * n (one decimal
\* digit of the square root, by the long-hand method).
SqrtDigit(s) ==
    LET t == CHOOSE d \in 0..9 :
                 /\ (20 * s.root + d) * d <= 100 * s.rem
                 /\ d < 9 => (20 * s.root + d + 1) * (d + 1) > 100 * s.rem
    IN  [root |-> 10 * s.root + t,
         rem  |-> 100 * s.rem - (20 * s.root + t) * t]

\* Math.round(Math.sqrt(n) * 100), the hundredths of a rounded distance:
\* floor(sqrt(10^4 n) + 1/2); a tie cannot occur, (2r+1)^2 being odd.
RoundSqrt100(n) ==
    LET s == SqrtDigit(SqrtDigit(SqrtRem(n)))
    IN  IF s.rem > s.root THEN s.root + 1 ELSE s.root

\* ceil(20000 * sqrt(n)) = ceil(sqrt(4 * 10^8 * n)).
CeilSqrt20000(n) ==
    LET s == SqrtDigit(SqrtDigit(SqrtDigit(SqrtDigit(SqrtRem(4 * n)))))
    IN  IF s.rem > 0 THEN s.root + 1 ELSE s.root

CeilDiv(a, b) == (a + b - 1) \div b

(***************************************************************************)
(* PDFProcessor.rgbToHex                                                   *)
(***************************************************************************)
DecDigits == <<"0", "1", "2", "3", "4", "5", "6", "7", "8", "9">>
LowerHexDigits == DecDigits \o <<"a", "b", "c", "d", "e", "f">>

\* Number.prototype.toString(16) of n >= 0.
RECURSIVE toString16(_)
toString16(n) ==
    IF n < 16 THEN <<LowerHexDigits[n + 1]>>
    ELSE Append(toString16(n \div 16), LowerHexDigits[(n % 16) + 1])

\* String.prototype.toUpperCase on the characters toString(16) produces.
toUpperCaseChar(c) ==
    CASE c = "a" -> "A" [] c = "b" -> "B" [] c = "c" -> "C"
      [] c = "d" -> "D" [] c = "e" -> "E" [] c = "f" -> "F"
      [] OTHER -> c

\* `#${((1 << 24) + (r << 16) + (g << 8) + b).toString(16).slice(1).toUpperCase()}`
rgbToHex(r, g, b) ==
    LET digits == toString16(16777216 + r * 65536 + g * 256 + b)
        sliced == SubSeq(digits, 2, Len(digits))
    IN  <<"#">> \o [k \in 1..Len(sliced) |-> toUpperCaseChar(sliced[k])]

\* String.prototype.padStart(2, '0')
padStart2(str) ==
    IF Len(str) >= 2 THEN str
    ELSE IF Len(str) = 1 THEN <<"0">> \o str
    ELSE <<"0", "0">>

\* `#${avgR.toString(16).padStart(2, '0')}${avgG.toString(16).padStart(2, '0')}${avgB.toString(16).padStart(2, '0')}`
dominantColorHex(avgR, avgG, avgB) ==
    <<"#">> \o padStart2(toString16(avgR)) \o padStart2(toString16(avgG))
            \o padStart2(toString16(avgB))

(***************************************************************************)
(* ColorMatcher                                                            *)
(***************************************************************************)
\* let minDistance = Infinity: above every squared distance of two 8-bit
\* colours (at most 3 * 255^2 = 195075).
Infinity == 195076

\* calculateColorDistance: the Euclidean distance, carried as its square.
calculateColorDistance(color1, color2) ==
    LET dr == color1.r - color2.r
        dg == color1.g - color2.g
        db == color1.b - color2.b
    IN  dr * dr + dg * dg + db * db

\* Variant: the acceptance test written with < instead of <=.
withinMaxDistanceStrict(minDistance, maxD) ==
    minDistance < Infinity /\ minDistance < maxD * maxD

\* The test `minDistance <= this.maxDistance` on the square: for an integer
\* maxDistance >= 0, sqrt(n) <= m iff n <= m * m.
withinMaxDistance(minDistance, maxD) ==
    minDistance < Infinity /\ minDistance <= maxD * maxD

\* Variant: the confidence without the `100 -`, growing with the distance.
confidenceOfRatio(minDistance, maxD) ==
    IF maxD = 0
    THEN IF minDistance = 0 THEN [nan |-> TRUE, val |-> 0]
                            ELSE [nan |-> FALSE, val |-> 10000]
    ELSE IF minDistance >= maxD * maxD
         THEN [nan |-> FALSE, val |-> 10000]
         ELSE LET q == CeilDiv(CeilSqrt20000(minDistance), maxD)
              IN  [nan |-> FALSE, val |-> Max(0, Min(10000, q \div 2))]

\* Math.round(Math.max(0, Math.min(100, 100 - (d / maxD) * 100)) * 100),
\* d = sqrt(minDistance), in hundredths.  With maxD = 0: 0 / 0 is NaN, which
\* Math.min, Math.max and Math.round all pass on; d / 0 for d > 0 is
\* +Infinity, 100 - Infinity is clamped to 0.
confidenceOf(minDistance, maxD) ==
    IF maxD = 0
    THEN IF minDistance = 0 THEN [nan |-> TRUE, val |-> 0]
                            ELSE [nan |-> FALSE, val |-> 0]
    ELSE IF minDistance >= maxD * maxD
         THEN [nan |-> FALSE, val |-> 0]
         ELSE \* 10000 - ceil(x - 1/2), x = 10000 * d / maxD in (0, 10000)
              LET q == CeilDiv(CeilSqrt20000(minDistance), maxD)
              IN  [nan |-> FALSE, val |-> Max(0, Min(10000, 10000 - (q \div 2)))]

\* Variant: the loop with `distance <= minDistance`, keeping the last of
\* several nearest entries.
RECURSIVE closestFromLastOnTie(_, _, _, _)
closestFromLastOnTie(refs, rgb, i, best) ==
    IF i > Len(refs) THEN best
    ELSE LET distance == calculateColorDistance(rgb, refs[i].rgb)
         IN  IF distance <= best.dist
             THEN closestFromLastOnTie(refs, rgb, i + 1,
                                       [ref |-> i, dist |-> distance])
             ELSE closestFromLastOnTie(refs, rgb, i + 1, best)

\* The for loop of findClosestReferenceColor from entry i on;
\* best = [ref |-> index of closestReference or 0, dist |-> minDistance].
RECURSIVE closestFrom(_, _, _, _)
closestFrom(refs, rgb, i, best) ==
    IF i > Len(refs) THEN best
    ELSE LET distance == calculateColorDistance(rgb, refs[i].rgb)
         IN  IF distance < best.dist
             THEN closestFrom(refs, rgb, i + 1, [ref |-> i, dist |-> distance])
             ELSE closestFrom(refs, rgb, i + 1, best)

\* findClosestReferenceColor: Null, or the reference (by its index in the
\* palette), the distance and the confidence.
findClosestReferenceColor(refs, maxD, swatchColor) ==
    IF Len(refs) = 0 THEN Null
    ELSE LET best == closestFrom(refs, swatchColor.rgb, 1,
                                 [ref |-> 0, dist |-> Infinity])
         IN  IF best.ref # 0 /\ withinMaxDistance(best.dist, maxD)
             THEN [reference  |-> best.ref,
                   distance   |-> best.dist,
                   confidence |-> confidenceOf(best.dist, maxD)]
             ELSE Null

\* The record pushed for a colour without a match.
sentinelReference ==
    [colorCode    |-> StrUNKNOWN,
     colorName    |-> StrNoMatchFound,
     pantoneColor |-> StrNA,
     distance     |-> -100,
     confidence   |-> [nan |-> FALSE, val |-> 0]]

\* The body of the inner loop: the MatchedColor pushed for one colour.
matchColor(refs, maxD, color) ==
    LET match == findClosestReferenceColor(refs, maxD, color)
    IN  [rgb              |-> color.rgb,
         hex              |-> color.hex,
         boundingBox      |-> color.boundingBox,
         bottomRightPixel |-> color.bottomRightPixel,
         matchedReference |->
             IF match # Null
             THEN [colorCode    |-> refs[match.reference].colorCode,
                   colorName    |-> refs[match.reference].colorName,
                   pantoneColor |-> refs[match.reference].pantoneColor,
                   distance     |-> RoundSqrt100(match.distance),
                   confidence   |-> match.confidence]
             ELSE sentinelReference]

\* Variant: the inner loop pushing nothing for a colour without a match.
RECURSIVE matchColorsFromSkipUnmatched(_, _, _, _, _)
matchColorsFromSkipUnmatched(refs, maxD, colors, j, matchedColors) ==
    IF j > Len(colors) THEN matchedColors
    ELSE matchColorsFromSkipUnmatched(refs, maxD, colors, j + 1,
             IF findClosestReferenceColor(refs, maxD, colors[j]) = Null
             THEN matchedColors
             ELSE Append(matchedColors, matchColor(refs, maxD, colors[j])))

\* The inner loop over swatch.colors, pushing onto matchedColors.
RECURSIVE matchColorsFrom(_, _, _, _, _)
matchColorsFrom(refs, maxD, colors, j, matchedColors) ==
    IF j > Len(colors) THEN matchedColors
    ELSE matchColorsFrom(refs, maxD, colors, j + 1,
                         Append(matchedColors, matchColor(refs, maxD, colors[j])))

\* The outer loop over swatches; acc = [matchedSwatches, totalColors].
RECURSIVE matchSwatchesFrom(_, _, _, _, _)
matchSwatchesFrom(refs, maxD, sws, i, acc) ==
    IF i > Len(sws) THEN acc
    ELSE LET swatch == sws[i]
             matchedColors == matchColorsFrom(refs, maxD, swatch.colors, 1, <<>>)
         IN  matchSwatchesFrom(refs, maxD, sws, i + 1,
                 [matchedSwatches |->
                      Append(acc.matchedSwatches,
                             [styleNumber |-> swatch.styleNumber,
                              styleName   |-> swatch.styleName,
                              colors      |-> matchedColors,
                              boundingBox |-> swatch.boundingBox]),
                  totalColors |-> acc.totalColors + Len(swatch.colors)])

\* matchSwatchesWithReferences: the ColorMatchingResult (without the
\* timestamp and the method text).
matchingResultOf(refs, maxD, sws) ==
    LET acc == matchSwatchesFrom(refs, maxD, sws, 1,
                                 [matchedSwatches |-> <<>>, totalColors |-> 0])
    IN  [totalSwatches        |-> Len(sws),
         totalColors          |-> acc.totalColors,
         totalReferenceColors |-> Len(refs),
         swatches             |-> acc.matchedSwatches,
         referenceColors      |-> refs]

(***************************************************************************)
(* Inputs of the matcher.                                                  *)
(***************************************************************************)
RGB(r, g, b) == [r |-> r, g |-> g, b |-> b]
Box(x, y, w, h) == [x |-> x, y |-> y, width |-> w, height |-> h]

\* Reference entries: black, a colour 6 away from it, one at sqrt(26) from
\* black, and one whose distances to two of the sampled colours, sqrt(2571)
\* and sqrt(2572), both round to 50.71.
SampleReferences ==
    { [colorCode    |-> <<"B", "6", "0", "0", "0", "2">>,
       colorName    |-> <<"N", "e", "w", " ", "B", "l", "a", "c", "k">>,
       pantoneColor |-> <<"1", "9", "-", "0", "3", "0", "3">>,
       rgb |-> RGB(0, 0, 0), hex |-> rgbToHex(0, 0, 0), boundingBox |-> Box(15, 40, 50, 50)],
      [colorCode    |-> <<"B", "1", "0", "0", "9", "3">>,
       colorName    |-> <<"D", "e", "e", "p", " ", "D", "e", "p", "t", "h", "s">>,
       pantoneColor |-> <<"1", "9", "-", "4", "0", "3", "5">>,
       rgb |-> RGB(6, 0, 0), hex |-> rgbToHex(6, 0, 0), boundingBox |-> Box(75, 40, 50, 50)],
      [colorCode    |-> <<"B", "5", "0", "0", "2", "7">>,
       colorName    |-> <<"L", "e", "m", "o", "n", "a", "d", "e">>,
       pantoneColor |-> StrUnknown,
       rgb |-> RGB(3, 4, 1), hex |-> rgbToHex(3, 4, 1), boundingBox |-> Box(137, 40, 50, 50)],
      [colorCode    |-> <<"B", "3", "0", "1", "9", "2">>,
       colorName    |-> <<"C", "h", "o", "c", "o", "l", "a", "t", "e">>,
       pantoneColor |-> StrUnknown,
       rgb |-> RGB(6, 13, 50), hex |-> rgbToHex(6, 13, 50), boundingBox |-> Box(198, 40, 50, 50)] }

\* Sampled colours: between two references (a tie at 3), equal to a
\* reference, at 5 and at 1 from references, far from all of them, and the
\* two colours at sqrt(2571) and sqrt(2572) from the fourth reference.
SampleRGBs ==
    { RGB(3, 0, 0), RGB(0, 0, 0), RGB(3, 4, 0), RGB(255, 255, 255),
      RGB(5, 0, 1), RGB(0, 7, 0) }

\* Acceptance distances: the default 150, two small ones, and 0.
MaxDistances == {0, 3, 5, 150}

\* The ColorBox at place j of the swatch at place i.
ColorBoxAt(i, j, rgb) ==
    [rgb              |-> rgb,
     hex              |-> dominantColorHex(rgb.r, rgb.g, rgb.b),
     boundingBox      |-> Box(130 * i + 20 * j, 300, 18, 18),
     bottomRightPixel |-> RGB(rgb.b, rgb.g, rgb.r)]

\* The SwatchGroup at place i with the given colours.
SwatchAt(i, rgbs) ==
    [styleNumber |-> <<"1", "0", "0", "0", "0", DecDigits[i + 1]>>,
     styleName   |-> <<"S", "t", "y", "l", "e", " ", DecDigits[i + 1]>>,
     colors      |-> [j \in 1..Len(rgbs) |-> ColorBoxAt(i, j, rgbs[j])],
     boundingBox |-> Box(130 * i, 200, 125, 140)]

\* Colour lists of the swatches of a call with several swatches.
SwatchShapes ==
    { <<>>, <<RGB(3, 0, 0)>>, <<RGB(255, 255, 255), RGB(0, 0, 0)>> }

\* The swatch lists a call is made with: one swatch with every colour list
\* up to MaxColors, and up to MaxSwatches swatches of the shapes above.
SwatchInputs ==
    { <<SwatchAt(1, rgbs)>> : rgbs \in SeqsUpTo(SampleRGBs, MaxColors) }
    \cup { [i \in 1..Len(shapes) |-> SwatchAt(i, shapes[i])] :
             shapes \in SeqsUpTo(SwatchShapes, MaxSwatches) }

(***************************************************************************)
(* The matcher as a state machine.                                         *)
(***************************************************************************)
InitMatcher ==
    /\ referenceColors \in SeqsUpTo(SampleReferences, MaxPalette)
    /\ maxDistance \in MaxDistances
    /\ swatches = Null
    /\ matchResult = Null
    /\ extractedColors = <<>>
    /\ validationResult = Null
    /\ validatorLog = <<>>
    /\ correctedColors = Null
    /\ revalidation = Null
    /\ ocrText = <<>>
    /\ swatchOut = Null
    /\ RunsIdle

\* colorMatcher.matchSwatchesWithReferences(sws), called once on the
\* matcher that main constructs.
matchSwatchesWithReferences(sws) ==
    /\ swatches = Null
    /\ swatches' = Some(sws)
    /\ matchResult' = matchingResultOf(referenceColors, maxDistance, sws)
    /\ UNCHANGED <<referenceColors, maxDistance>>
    /\ UNCHANGED <<validatorVars, swatchTextVars, runVars>>

NextMatcher == \E sws \in SwatchInputs : matchSwatchesWithReferences(sws)

SpecMatcher == InitMatcher /\ [][NextMatcher]_vars

(***************************************************************************)
(* Properties of the matcher.                                              *)
(***************************************************************************)
\* The places (swatch, colour) of the call's input.
MatchPlaces ==
    IF swatches = Null THEN {}
    ELSE UNION {{<<i, j>> : j \in 1..Len(swatches.some[i].colors)} :
                    i \in 1..Len(swatches.some)}
InputColor(p) == swatches.some[p[1]].colors[p[2]]
OutputColor(p) == matchResult.swatches[p[1]].colors[p[2]]
OutputsAligned ==
    /\ matchResult # Null
    /\ Len(matchResult.swatches) = Len(swatches.some)
    /\ \A i \in 1..Len(swatches.some) :
           Len(matchResult.swatches[i].colors) = Len(swatches.some[i].colors)

\* The sentinel of the data model: code "UNKNOWN", distance -1, confidence 0.
IsSentinel(m) ==
    /\ m.colorCode = StrUNKNOWN
    /\ m.distance = -100
    /\ ~m.confidence.nan /\ m.confidence.val = 0

\* Squared RGB distance, and the palette's least one to a colour.
SquaredDistance(a, b) ==
    (a.r - b.r) * (a.r - b.r) + (a.g - b.g) * (a.g - b.g) + (a.b - b.b) * (a.b - b.b)
PaletteDistances(rgb) ==
    {SquaredDistance(rgb, referenceColors[k].rgb) : k \in 1..Len(referenceColors)}
LeastDistance(rgb) ==
    CHOOSE d \in PaletteDistances(rgb) : \A e \in PaletteDistances(rgb) : d <= e
\* The earliest palette entry at the least distance.
EarliestNearest(rgb) ==
    CHOOSE k \in 1..Len(referenceColors) :
        /\ SquaredDistance(rgb, referenceColors[k].rgb) = LeastDistance(rgb)
        /\ \A l \in 1..(k - 1) :
               SquaredDistance(rgb, referenceColors[l].rgb) > LeastDistance(rgb)
WithinThreshold(rgb) ==
    /\ Len(referenceColors) > 0
    /\ LeastDistance(rgb) <= maxDistance * maxDistance

\* C1: whenever a match is emitted for a colour, the matched entry is the
\* palette entry at the minimum RGB Euclidean distance from the colour, and
\* among several entries at that distance the earliest in palette order.
C1_NearestEarliest ==
    swatches # Null =>
        /\ OutputsAligned
        /\ \A p \in MatchPlaces :
               LET m == OutputColor(p).matchedReference
               IN  ~IsSentinel(m) =>
                       /\ Len(referenceColors) > 0
                       /\ LET ref == referenceColors[EarliestNearest(InputColor(p).rgb)]
                          IN  /\ m.colorCode = ref.colorCode
                              /\ m.colorName = ref.colorName
                              /\ m.pantoneColor = ref.pantoneColor

\* A match was emitted for a colour with two different palette entries at
\* the least distance.
C1_Witness ==
    /\ swatches # Null
    /\ \E p \in MatchPlaces :
           /\ ~IsSentinel(OutputColor(p).matchedReference)
           /\ \E k, l \in 1..Len(referenceColors) :
                  /\ k < l
                  /\ referenceColors[k].colorCode # referenceColors[l].colorCode
                  /\ SquaredDistance(InputColor(p).rgb, referenceColors[k].rgb)
                         = LeastDistance(InputColor(p).rgb)
                  /\ SquaredDistance(InputColor(p).rgb, referenceColors[l].rgb)
                         = LeastDistance(InputColor(p).rgb)

\* C2: a non-sentinel record is emitted for a colour if and only if the
\* palette is non-empty and the least distance from the colour to the palette
\* is <= maxDistance; a matched record has 0 <= distance <= maxDistance, and
\* in every other case the record is exactly the sentinel.
C2_MatchIffWithinMaxDistance ==
    swatches # Null =>
        /\ OutputsAligned
        /\ \A p \in MatchPlaces :
               LET m == OutputColor(p).matchedReference
               IN  /\ ~IsSentinel(m) <=> WithinThreshold(InputColor(p).rgb)
                   /\ ~IsSentinel(m) =>
                          m.distance >= 0 /\ m.distance <= 100 * maxDistance

\* One call produced a sentinel with a non-empty palette and, for another
\* colour, a match at exactly maxDistance.
C2_Witness ==
    /\ swatches # Null
    /\ Len(referenceColors) > 0
    /\ \E p, q \in MatchPlaces :
           /\ IsSentinel(OutputColor(p).matchedReference)
           /\ ~IsSentinel(OutputColor(q).matchedReference)
           /\ OutputColor(q).matchedReference.distance = 100 * maxDistance

\* C3: every record produced, matched or sentinel, has a confidence that is
\* a number in [0, 100], for every maxDistance >= 0 (0 included).
C3_ConfidenceInRange ==
    swatches # Null =>
        \A p \in MatchPlaces :
            LET c == OutputColor(p).matchedReference.confidence
            IN  ~c.nan /\ c.val >= 0 /\ c.val <= 10000

\* C4 as stated, on the distances the records carry: for two matched records
\* of a matcher with maxDistance > 0, distance d1 <= d2 gives
\* confidence(d1) >= confidence(d2).
C4_MonotoneOnRecordedDistance ==
    (swatches # Null /\ maxDistance > 0) =>
        \A p, q \in MatchPlaces :
            LET m == OutputColor(p).matchedReference
                n == OutputColor(q).matchedReference
            IN  (~IsSentinel(m) /\ ~IsSentinel(n) /\ m.distance <= n.distance)
                    => m.confidence.val >= n.confidence.val

\* C4 (amended): for a matcher with maxDistance > 0, confidence is a
\* non-increasing function of the match distance before it is rounded into
\* the record, and of the recorded distances when they differ (d1 < d2); a
\* colour equal to a palette entry's RGB is matched with distance 0 and
\* confidence 100, one at exactly maxDistance with confidence 0.
C4_ConfidenceMonotone ==
    (swatches # Null /\ maxDistance > 0) =>
        /\ \A p, q \in MatchPlaces :
               LET m == OutputColor(p).matchedReference
                   n == OutputColor(q).matchedReference
               IN  (~IsSentinel(m) /\ ~IsSentinel(n)) =>
                       /\ ~m.confidence.nan
                       /\ LeastDistance(InputColor(p).rgb)
                              <= LeastDistance(InputColor(q).rgb)
                            => m.confidence.val >= n.confidence.val
                       /\ m.distance < n.distance
                            => m.confidence.val >= n.confidence.val
        /\ \A p \in MatchPlaces :
               LET m == OutputColor(p).matchedReference
                   rgb == InputColor(p).rgb
               IN  /\ (\E k \in 1..Len(referenceColors) : referenceColors[k].rgb = rgb)
                          => /\ ~IsSentinel(m)
                             /\ m.distance = 0
                             /\ m.confidence = [nan |-> FALSE, val |-> 10000]
                   /\ (Len(referenceColors) > 0
                         /\ LeastDistance(rgb) = maxDistance * maxDistance)
                          => /\ ~IsSentinel(m)
                             /\ m.confidence = [nan |-> FALSE, val |-> 0]

\* One call, with maxDistance > 0, matched a colour at distance 0 with
\* confidence 100 and a colour at exactly maxDistance with confidence 0.
C4_Witness ==
    /\ swatches # Null
    /\ maxDistance > 0
    /\ \E p, q \in MatchPlaces :
           LET m == OutputColor(p).matchedReference
               n == OutputColor(q).matchedReference
           IN  /\ ~IsSentinel(m) /\ ~IsSentinel(n)
               /\ m.distance = 0 /\ m.confidence.val = 10000
               /\ n.distance = 100 * maxDistance /\ n.confidence.val = 0

\* C5: the call returns as many swatches as it was given, in the same order,
\* each with one record per input colour in the same order, with
\* styleNumber, styleName, rgb, hex and boundingBox copied, and totalColors
\* is the number of input colours.
C5_MatchingPreservesShape ==
    swatches # Null =>
        /\ matchResult # Null
        /\ matchResult.totalSwatches = Len(swatches.some)
        /\ Len(matchResult.swatches) = Len(swatches.some)
        /\ \A i \in 1..Len(swatches.some) :
               LET given == swatches.some[i]
                   out == matchResult.swatches[i]
               IN  /\ out.styleNumber = given.styleNumber
                   /\ out.styleName = given.styleName
                   /\ out.boundingBox = given.boundingBox
                   /\ Len(out.colors) = Len(given.colors)
                   /\ \A j \in 1..Len(given.colors) :
                          /\ out.colors[j].rgb = given.colors[j].rgb
                          /\ out.colors[j].hex = given.colors[j].hex
                          /\ out.colors[j].boundingBox = given.colors[j].boundingBox
        /\ matchResult.totalColors = Cardinality(MatchPlaces)

\* A call with two swatches, one of them with two colours of which one has
\* no match and one has.
C5_Witness ==
    /\ swatches # Null
    /\ matchResult # Null
    /\ Len(swatches.some) >= 2
    /\ \E i \in 1..Len(swatches.some) :
           /\ Len(swatches.some[i].colors) >= 2
           /\ \E j, k \in 1..Len(matchResult.swatches[i].colors) :
                  /\ IsSentinel(matchResult.swatches[i].colors[j].matchedReference)
                  /\ ~IsSentinel(matchResult.swatches[i].colors[k].matchedReference)

(***************************************************************************)
(* ColorValidator                                                          *)
(***************************************************************************)
\* The expected-palette table.
expectedColors ==
    << [code |-> <<"B", "6", "0", "0", "0", "2">>,
        name |-> <<"N", "e", "w", " ", "B", "l", "a", "c", "k">>,
        position |-> 15],
       [code |-> <<"B", "1", "0", "0", "9", "3">>,
        name |-> <<"D", "e", "e", "p", " ", "D", "e", "p", "t", "h", "s">>,
        position |-> 75],
       [code |-> <<"B", "5", "0", "0", "2", "7">>,
        name |-> <<"L", "e", "m", "o", "n", "a", "d", "e">>,
        position |-> 137],
       [code |-> <<"B", "3", "0", "1", "9", "2">>,
        name |-> <<"C", "h", "o", "c", "o", "l", "a", "t", "e">>,
        position |-> 198],
       [code |-> <<"B", "3", "0", "1", "9", "4">>,
        name |-> <<"F", "a", "l", "c", "o", "n", " ", "B", "r", "o", "w", "n">>,
        position |-> 260],
       [code |-> <<"B", "3", "0", "1", "9", "3">>,
        name |-> <<"C", "l", "a", "y">>,
        position |-> 322],
       [code |-> <<"B", "3", "0", "1", "9", "5">>,
        name |-> <<"R", "o", "s", "e", " ", "G", "r", "a", "y">>,
        position |-> 384],
       [code |-> <<"B", "1", "0", "1", "1", "9">>,
        name |-> <<"G", "a", "r", "d", "e", "n", "i", "a">>,
        position |-> 447],
       [code |-> <<"B", "2", "0", "1", "6", "2">>,
        name |-> <<"C", "o", "a", "s", "t", "l", "i", "n", "e", " ", "B", "l", "u", "e">>,
        position |-> 508],
       [code |-> <<"B", "2", "0", "0", "3", "3">>,
        name |-> <<"D", "a", "z", "z", "l", "i", "n", "g", " ", "B", "l", "u", "e">>,
        position |-> 570],
       [code |-> <<"B", "2", "0", "1", "1", "1">>,
        name |-> <<"N", "a", "v", "y">>,
        position |-> 633] >>

StrColorAt == <<"C", "o", "l", "o", "r", " ", "a", "t", " ">>

IsDigit(c) == c \in {"0", "1", "2", "3", "4", "5", "6", "7", "8", "9"}

\* String.prototype.includes
includes(str, sub) ==
    \E i \in 1..(Len(str) - Len(sub) + 1) : SubSeq(str, i, i + Len(sub) - 1) = sub

\* Variant: the pattern without its end anchor, /^C\d{4}/.
matchesFallbackCodeUnanchored(code) ==
    /\ Len(code) >= 5
    /\ code[1] = "C"
    /\ \A k \in 2..5 : IsDigit(code[k])

\* !!colorCode.match(/^C\d{4}$/)
matchesFallbackCode(code) ==
    /\ Len(code) = 5
    /\ code[1] = "C"
    /\ \A k \in 2..5 : IsDigit(code[k])

\* const tolerance = 200
tolerance == 200

\* Math.abs
Abs(n) == IF n < 0 THEN -n ELSE n

\* The for loop of findExpectedColorByPosition from table entry k on.
RECURSIVE expectedFrom(_, _)
expectedFrom(position, k) ==
    IF k > Len(expectedColors) THEN Null
    ELSE IF Abs(position - expectedColors[k].position) <= tolerance
         THEN expectedColors[k]
         ELSE expectedFrom(position, k + 1)

\* findExpectedColorByPosition
findExpectedColorByPosition(position) == expectedFrom(position, 1)

\* Variant: an entry is also flagged when its name is not the one the table
\* expects at its position.
isOCRFailureOrUnexpectedName(extractedColor) ==
    \/ matchesFallbackCode(extractedColor.colorCode)
    \/ includes(extractedColor.colorName, StrColorAt)
    \/ extractedColor.colorName = StrUnknown
    \/ Len(extractedColor.colorName) < 3
    \/ LET expected == findExpectedColorByPosition(extractedColor.boundingBox.x)
       IN  expected # Null /\ expected.name # extractedColor.colorName

\* isOCRFailure
isOCRFailure(extractedColor) ==
    LET hasFallbackCode == matchesFallbackCode(extractedColor.colorCode)
        hasGenericName ==
            \/ includes(extractedColor.colorName, StrColorAt)
            \/ extractedColor.colorName = StrUnknown
            \/ Len(extractedColor.colorName) < 3
    IN  hasFallbackCode \/ hasGenericName

\* Variant: a correction replaces the code and leaves the name.
RECURSIVE validateFromCodeOnly(_, _, _)
validateFromCodeOnly(extracted, i, acc) ==
    IF i > Len(extracted) THEN acc
    ELSE LET extractedColor == extracted[i]
         IN  IF isOCRFailure(extractedColor)
             THEN LET expectedColor ==
                          findExpectedColorByPosition(extractedColor.boundingBox.x)
                  IN  IF expectedColor # Null
                      THEN validateFromCodeOnly(extracted, i + 1,
                               [acc EXCEPT !.corrections = Append(@,
                                   [originalIndex  |-> i - 1,
                                    correctedColor |->
                                        [extractedColor EXCEPT
                                             !.colorCode = expectedColor.code],
                                    reason |-> [expected |-> expectedColor.code,
                                                got |-> extractedColor.colorCode]])])
                      ELSE validateFromCodeOnly(extracted, i + 1, acc)
             ELSE validateFromCodeOnly(extracted, i + 1,
                               [acc EXCEPT !.kept = Append(@, i - 1)])

\* The for loop of validateAndCorrect from entry i on (i counts from 1, the
\* source's index is i - 1); acc = [corrections, kept], kept being the
\* indices logged as "Keeping successful OCR result".
RECURSIVE validateFrom(_, _, _)
validateFrom(extracted, i, acc) ==
    IF i > Len(extracted) THEN acc
    ELSE LET extractedColor == extracted[i]
         IN  IF isOCRFailure(extractedColor)
             THEN LET expectedColor ==
                          findExpectedColorByPosition(extractedColor.boundingBox.x)
                  IN  IF expectedColor # Null
                      THEN validateFrom(extracted, i + 1,
                               [acc EXCEPT !.corrections = Append(@,
                                   [originalIndex  |-> i - 1,
                                    correctedColor |->
                                        [extractedColor EXCEPT
                                             !.colorCode = expectedColor.code,
                                             !.colorName = expectedColor.name],
                                    reason |-> [expected |-> expectedColor.code,
                                                got |-> extractedColor.colorCode]])])
                      ELSE validateFrom(extracted, i + 1, acc)
             ELSE validateFrom(extracted, i + 1,
                               [acc EXCEPT !.kept = Append(@, i - 1)])

\* validateAndCorrect: the ValidationResult (the summary as its three
\* counts) and the lines logged.
validateAndCorrect(extracted) ==
    LET acc == validateFrom(extracted, 1, [corrections |-> <<>>, kept |-> <<>>])
    IN  [result |-> [isValid     |-> Len(acc.corrections) = 0,
                     corrections |-> acc.corrections,
                     summary     |-> [totalExtracted |-> Len(extracted),
                                      expected       |-> Len(expectedColors),
                                      corrections    |-> Len(acc.corrections)]],
         log |-> acc.kept]

\* corrections.forEach(correction => target[correction.originalIndex] = ...)
RECURSIVE assignCorrections(_, _, _)
assignCorrections(target, corrections, k) ==
    IF k > Len(corrections) THEN target
    ELSE assignCorrections(
             [target EXCEPT ![corrections[k].originalIndex + 1] =
                                corrections[k].correctedColor],
             corrections, k + 1)

\* Variant: the corrections written into the argument array itself, without
\* the copy `[...extractedColors]`.
applyCorrectionsInPlace(extracted, corrections) ==
    LET corrected == assignCorrections(extracted, corrections, 1)
    IN  [argument |-> corrected, returned |-> corrected]

\* applyCorrections: the array returned, and the argument array as the call
\* leaves it.
applyCorrections(extracted, corrections) ==
    LET correctedColors0 == extracted
    IN  [argument |-> extracted,
         returned |-> assignCorrections(correctedColors0, corrections, 1)]

(***************************************************************************)
(* Inputs of the validator.                                                *)
(***************************************************************************)
ExtractedEntry(code, name, x) ==
    [colorCode    |-> code,
     colorName    |-> name,
     pantoneColor |-> StrUnknown,
     rgb          |-> RGB(40, 80, 120),
     hex          |-> rgbToHex(40, 80, 120),
     boundingBox  |-> Box(x, 40, 50, 50)]

SampleCodes ==
    { <<"C", "1", "2", "3", "4">>, <<"B", "6", "0", "0", "0", "2">>,
      <<"C", "1", "2", "3">>, <<"C", "1", "2", "3", "4", "5">> }

SampleNames ==
    { StrUnknown, <<"C", "o", "l", "o", "r", " ", "a", "t", " ", "7", "5">>, <<"A", "B">>,
      <<"R", "e", "d">>, <<"D", "e", "e", "p", " ", "D", "e", "p", "t", "h", "s">> }

\* The positions of the table, the last position within tolerance of its last
\* entry, and the first beyond it.
SamplePositions ==
    {expectedColors[k].position : k \in 1..Len(expectedColors)} \cup {833, 834}

\* Every code with every name at one position, a fallback entry at every
\* position, and a well-read entry out of reach of the table.
SampleEntries ==
    {ExtractedEntry(code, name, 75) : code \in SampleCodes, name \in SampleNames}
    \cup {ExtractedEntry(<<"C", "1", "2", "3", "4">>, <<"C", "o", "l", "o", "r", " ", "a", "t", " ", "7", "5">>, x) :
              x \in SamplePositions}
    \cup {ExtractedEntry(<<"B", "6", "0", "0", "0", "2">>, <<"N", "e", "w", " ", "B", "l", "a", "c", "k">>, 834)}

(***************************************************************************)
(* The validator as a state machine.                                       *)
(***************************************************************************)
InitValidator ==
    /\ extractedColors \in SeqsUpTo(SampleEntries, MaxEntries)
    /\ validationResult = Null
    /\ validatorLog = <<>>
    /\ correctedColors = Null
    /\ revalidation = Null
    /\ referenceColors = <<>>
    /\ maxDistance = 150
    /\ swatches = Null
    /\ matchResult = Null
    /\ ocrText = <<>>
    /\ swatchOut = Null
    /\ RunsIdle

\* validationResult = ColorValidator.validateAndCorrect(extractedColors)
ValidateAndCorrect ==
    /\ validationResult = Null
    /\ LET run == validateAndCorrect(extractedColors)
       IN  /\ validationResult' = run.result
           /\ validatorLog' = run.log
    /\ UNCHANGED <<extractedColors, correctedColors, revalidation>>
    /\ UNCHANGED <<matcherVars, swatchTextVars, runVars>>

\* ColorValidator.applyCorrections(extractedColors, validationResult.corrections)
ApplyCorrections ==
    /\ validationResult # Null
    /\ correctedColors = Null
    /\ LET call == applyCorrections(extractedColors, validationResult.corrections)
       IN  /\ correctedColors' = Some(call.returned)
           /\ extractedColors' = call.argument
    /\ UNCHANGED <<validationResult, validatorLog, revalidation>>
    /\ UNCHANGED <<matcherVars, swatchTextVars, runVars>>

\* ColorValidator.validateAndCorrect(correctedColors): the list returned by
\* applyCorrections is validated again.
ValidateCorrected ==
    /\ correctedColors # Null
    /\ revalidation = Null
    /\ revalidation' = validateAndCorrect(correctedColors.some).result
    /\ UNCHANGED <<extractedColors, validationResult, validatorLog, correctedColors>>
    /\ UNCHANGED <<matcherVars, swatchTextVars, runVars>>

NextValidator == ValidateAndCorrect \/ ApplyCorrections \/ ValidateCorrected

SpecValidator == InitValidator /\ [][NextValidator]_vars

(***************************************************************************)
(* Properties of the validator.                                            *)
(***************************************************************************)
DigitChars == {"0", "1", "2", "3", "4", "5", "6", "7", "8", "9"}
LetterChars ==
    {"A", "B", "C", "D", "E", "F", "G", "H", "I", "J", "K", "L", "M",
     "N", "O", "P", "Q", "R", "S", "T", "U", "V", "W", "X", "Y", "Z",
     "a", "b", "c", "d", "e", "f", "g", "h", "i", "j", "k", "l", "m",
     "n", "o", "p", "q", "r", "s", "t", "u", "v", "w", "x", "y", "z"}

\* The letter C followed by exactly 4 digits.
IsSyntheticCode(code) ==
    /\ Len(code) = 5
    /\ code[1] = "C"
    /\ {code[k] : k \in 2..5} \subseteq DigitChars

\* "Unknown", or a name containing "Color at ".
IsPlaceholderName(name) ==
    \/ name = <<"U", "n", "k", "n", "o", "w", "n">>
    \/ \E i \in 1..Len(name) :
           /\ i + 8 <= Len(name)
           /\ <<name[i], name[i + 1], name[i + 2], name[i + 3], name[i + 4],
                name[i + 5], name[i + 6], name[i + 7], name[i + 8]>>
                  = <<"C", "o", "l", "o", "r", " ", "a", "t", " ">>

\* The classification of section 4.5.
IsOcrFailureEntry(e) ==
    \/ IsSyntheticCode(e.colorCode)
    \/ IsPlaceholderName(e.colorName)
    \/ Len(e.colorName) < 3

\* A genuine descriptive name of several words: words of letters separated
\* by single spaces, not a placeholder.
IsMultiWordName(name) ==
    /\ Len(name) >= 3
    /\ \A k \in 1..Len(name) : name[k] \in LetterChars \cup {" "}
    /\ name[1] # " " /\ name[Len(name)] # " "
    /\ \E k \in 2..(Len(name) - 1) : name[k] = " "
    /\ \A k \in 1..(Len(name) - 1) : ~(name[k] = " " /\ name[k + 1] = " ")
    /\ ~IsPlaceholderName(name)

\* The entries (counted from 1) that received a Correction, and those logged
\* as kept.
CorrectedIndices ==
    {validationResult.corrections[k].originalIndex + 1 :
         k \in 1..Len(validationResult.corrections)}
KeptIndices == {validatorLog[k] + 1 : k \in 1..Len(validatorLog)}
CorrectionOf(i) ==
    validationResult.corrections[
        CHOOSE k \in 1..Len(validationResult.corrections) :
            validationResult.corrections[k].originalIndex + 1 = i]
WithinTolerance(x) ==
    \E k \in 1..Len(expectedColors) :
        x - expectedColors[k].position <= 200 /\ expectedColors[k].position - x <= 200

\* C6: an entry is classified an OCR failure (not kept as a successful
\* result) if and only if its code is C followed by exactly 4 digits, or its
\* name is "Unknown", contains "Color at " or is shorter than 3 characters;
\* only such entries receive a Correction, and those within tolerance of a
\* table position do.
C6_OcrFailureClassification ==
    validationResult # Null =>
        /\ \A i \in 1..Len(extractedColors) :
               i \in KeptIndices <=> ~IsOcrFailureEntry(extractedColors[i])
        /\ CorrectedIndices \subseteq 1..Len(extractedColors)
        /\ \A i \in 1..Len(extractedColors) :
               i \in CorrectedIndices <=>
                   /\ IsOcrFailureEntry(extractedColors[i])
                   /\ WithinTolerance(extractedColors[i].boundingBox.x)

\* A validated list with an entry flagged for its code alone, which was
\* corrected, and an entry with the code C12345, which was kept.
C6_Witness ==
    /\ validationResult # Null
    /\ correctedColors = Null
    /\ \E i, j \in 1..Len(extractedColors) :
           /\ i \in CorrectedIndices /\ j \in KeptIndices
           /\ IsSyntheticCode(extractedColors[i].colorCode)
           /\ ~IsPlaceholderName(extractedColors[i].colorName)
           /\ Len(extractedColors[i].colorName) >= 3
           /\ extractedColors[j].colorCode = <<"C", "1", "2", "3", "4", "5">>

\* C7: an entry with a synthetic fallback code located exactly at the
\* position of a ground-truth entry G is corrected to G's code and name.
C7_CorrectedToEntryAtPosition ==
    validationResult # Null =>
        \A i \in 1..Len(extractedColors) :
            \A k \in 1..Len(expectedColors) :
                (/\ IsSyntheticCode(extractedColors[i].colorCode)
                 /\ extractedColors[i].boundingBox.x = expectedColors[k].position)
                    => /\ i \in CorrectedIndices
                       /\ CorrectionOf(i).correctedColor.colorCode
                              = expectedColors[k].code
                       /\ CorrectionOf(i).correctedColor.colorName
                              = expectedColors[k].name

\* C8 as stated: an entry with a genuine multi-word name is never corrected,
\* whatever its code.
C8_MultiWordNameNeverCorrected ==
    validationResult # Null =>
        \A i \in CorrectedIndices : ~IsMultiWordName(extractedColors[i].colorName)

\* C8 (amended): an entry with a genuine multi-word name is never corrected
\* unless its code is C followed by exactly 4 digits, however close its
\* x-position is to a ground-truth position; it is kept as read and the
\* list returned by applyCorrections holds it unchanged.
C8_MultiWordNameKeptUnlessSyntheticCode ==
    validationResult # Null =>
        \A i \in 1..Len(extractedColors) :
            (/\ IsMultiWordName(extractedColors[i].colorName)
             /\ ~IsSyntheticCode(extractedColors[i].colorCode))
                => /\ i \notin CorrectedIndices
                   /\ i \in KeptIndices
                   /\ correctedColors # Null
                          => correctedColors.some[i] = extractedColors[i]

\* A list was validated and corrected that holds an entry with a multi-word
\* name and a code other than C and 4 digits, at a ground-truth position.
C8_Witness ==
    /\ validationResult # Null
    /\ correctedColors # Null
    /\ \E i \in 1..Len(extractedColors) :
           /\ IsMultiWordName(extractedColors[i].colorName)
           /\ ~IsSyntheticCode(extractedColors[i].colorCode)
           /\ \E k \in 1..Len(expectedColors) :
                  extractedColors[i].boundingBox.x = expectedColors[k].position
           /\ i \in KeptIndices

\* The state part of C9: the returned list has the length and order of the
\* input; an entry not classified an OCR failure is identical to its input;
\* every entry differs from its input at most in colorCode and colorName.
C9_ReturnedListShape ==
    correctedColors # Null =>
        /\ Len(correctedColors.some) = Len(extractedColors)
        /\ \A i \in 1..Len(extractedColors) :
               LET given == extractedColors[i]
                   out == correctedColors.some[i]
               IN  /\ ~IsOcrFailureEntry(given) => out = given
                   /\ out.rgb = given.rgb
                   /\ out.hex = given.hex
                   /\ out.pantoneColor = given.pantoneColor
                   /\ out.boundingBox = given.boundingBox
                   /\ i \notin CorrectedIndices => out = given
                   /\ i \in CorrectedIndices =>
                          out = CorrectionOf(i).correctedColor

\* C9: in the list returned by applyCorrections(E, validateAndCorrect(E)
\* .corrections) length and order are those of E, entries not classified as
\* OCR failures are identical to their input, corrected entries differ only
\* in colorCode and colorName, and neither call changes the input list E.
C9_CorrectionsFrame ==
    /\ []C9_ReturnedListShape
    /\ [][extractedColors' = extractedColors]_vars

\* A list of two entries was corrected: one entry was replaced by an entry
\* with another code and name, the other was kept as it was.
C9_Witness ==
    /\ correctedColors # Null
    /\ Len(extractedColors) = 2
    /\ \E i, j \in 1..Len(extractedColors) :
           /\ correctedColors.some[i].colorCode # extractedColors[i].colorCode
           /\ correctedColors.some[i].colorName # extractedColors[i].colorName
           /\ correctedColors.some[j] = extractedColors[j]
           /\ ~IsOcrFailureEntry(extractedColors[j])

(***************************************************************************)
(* SwatchExtractor: the text of a swatch                                   *)
(***************************************************************************)
\* The white space String.prototype.trim and \s remove, as far as the
\* recognised text can hold it.
WhiteSpace == {" ", "\t", "\n", "\r"}

\* String.prototype.trim
RECURSIVE trimStart(_)
trimStart(str) ==
    IF Len(str) > 0 /\ str[1] \in WhiteSpace THEN trimStart(Tail(str)) ELSE str
RECURSIVE trimEnd(_)
trimEnd(str) ==
    IF Len(str) > 0 /\ str[Len(str)] \in WhiteSpace
    THEN trimEnd(SubSeq(str, 1, Len(str) - 1))
    ELSE str
trim(str) == trimEnd(trimStart(str))

\* String.prototype.split('\n'): lines is the list so far, current the
\* line being read.
RECURSIVE splitFrom(_, _, _, _)
splitFrom(str, k, lines, current) ==
    IF k > Len(str) THEN Append(lines, current)
    ELSE IF str[k] = "\n"
         THEN splitFrom(str, k + 1, Append(lines, current), <<>>)
         ELSE splitFrom(str, k + 1, lines, Append(current, str[k]))
splitLines(str) == splitFrom(str, 1, <<>>, <<>>)

\* Array.prototype.filter(line => line.length > 0)
RECURSIVE filterNonEmpty(_)
filterNonEmpty(lines) ==
    IF Len(lines) = 0 THEN <<>>
    ELSE IF Len(Head(lines)) > 0
         THEN <<Head(lines)>> \o filterNonEmpty(Tail(lines))
         ELSE filterNonEmpty(Tail(lines))

\* text.split('\n').map(line => line.trim()).filter(line => line.length > 0)
nonEmptyLines(text) ==
    LET split == splitLines(text)
    IN  filterNonEmpty([k \in 1..Len(split) |-> trim(split[k])])

\* String.prototype.substring(start, end) and substring(start), 0 <= start <= end.
substring(str, start, end) == SubSeq(str, Min(start, Len(str)) + 1, Min(end, Len(str)))
substringFrom(str, start) == SubSeq(str, Min(start, Len(str)) + 1, Len(str))

\* String.prototype.replace(/[|]/g, '')
RECURSIVE removePipes(_)
removePipes(str) ==
    IF Len(str) = 0 THEN <<>>
    ELSE IF Head(str) = "|" THEN removePipes(Tail(str))
         ELSE <<Head(str)>> \o removePipes(Tail(str))

\* String.prototype.replace(/\s+/g, ' ')
RECURSIVE collapseWhiteSpace(_)
collapseWhiteSpace(str) ==
    IF Len(str) = 0 THEN <<>>
    ELSE IF Head(str) \in WhiteSpace
         THEN <<" ">> \o collapseWhiteSpace(trimStart(str))
         ELSE <<Head(str)>> \o collapseWhiteSpace(Tail(str))

\* Variant: the style number taken as the first word of the first line.
RECURSIVE firstWord(_)
firstWord(str) ==
    IF Len(str) = 0 \/ Head(str) \in WhiteSpace THEN <<>>
    ELSE <<Head(str)>> \o firstWord(Tail(str))
styleNumberOfFirstWord(lines) ==
    IF Len(lines) > 0 /\ Len(lines[1]) >= 6 THEN firstWord(lines[1]) ELSE <<>>

\* The style number of parseSwatchText before its `|| 'Unknown'`.
styleNumberOf(lines) ==
    IF Len(lines) > 0 /\ Len(lines[1]) >= 6 THEN substring(lines[1], 0, 6) ELSE <<>>

\* Variant: the remainder of the first line taken whatever its length.
styleNameOfAnyRemainder(lines) ==
    LET second == IF Len(lines) > 1 THEN lines[2] ELSE <<>>
        cleaned == IF Len(second) > 0
                   THEN trim(collapseWhiteSpace(removePipes(second)))
                   ELSE second
    IN  IF Len(cleaned) = 0 /\ Len(lines) > 0
        THEN LET remainingFirstLine == trim(substringFrom(lines[1], 6))
             IN  IF Len(remainingFirstLine) > 0 THEN remainingFirstLine ELSE cleaned
        ELSE cleaned
\* The style name of parseSwatchText before its `|| 'Unknown'`.
styleNameOf(lines) ==
    LET second == IF Len(lines) > 1 THEN lines[2] ELSE <<>>
        cleaned == IF Len(second) > 0
                   THEN trim(collapseWhiteSpace(removePipes(second)))
                   ELSE second
    IN  IF Len(cleaned) = 0 /\ Len(lines) > 0
        THEN LET remainingFirstLine == trim(substringFrom(lines[1], 6))
             IN  IF Len(remainingFirstLine) > 2 THEN remainingFirstLine ELSE cleaned
        ELSE cleaned

\* parseSwatchText
parseSwatchText(text) ==
    LET lines == nonEmptyLines(text)
    IN  IF Len(lines) = 0 THEN Null
        ELSE LET styleNumber == styleNumberOf(lines)
                 styleName == styleNameOf(lines)
             IN  [styleNumber |-> IF Len(styleNumber) > 0 THEN styleNumber
                                                         ELSE StrUnknown,
                  styleName   |-> IF Len(styleName) > 0 THEN styleName
                                                       ELSE StrUnknown]

\* The text part of extractSwatchFromBoundary: null when the text does not
\* parse, else the style fields of the SwatchGroup it returns.
swatchTextOf(recognized) ==
    LET text == trim(recognized)
        textInfo == parseSwatchText(text)
    IN  IF textInfo = Null THEN Null
        ELSE [styleNumber |-> textInfo.styleNumber,
              styleName   |-> textInfo.styleName]

(***************************************************************************)
(* Inputs of the text rule.                                                *)
(***************************************************************************)
\* Lines as the recognition engine may return them: the example of the
\* specification, a line shorter than 6 characters, blank lines, lines with
\* pipes and runs of spaces, and a padded line with a remainder of 2.
RecognizedLines ==
    { <<"1", "2", "3", "4", "5", "6", " ", "S", "A", "M", "P", "L", "E">>,
      <<"M", "y", " ", "S", "t", "y", "l", "e", " ", "N", "a", "m", "e">>,
      <<"1", "2", "3", "4", "5">>,
      <<" ", " ">>,
      <<"A", "b", "|", " ", " ", "c">>,
      <<"|">>,
      <<" ", "1", "2", "3", "4", "5", "6", "A", "B", " ">> }

\* Array.prototype.join('\n')
RECURSIVE joinLines(_)
joinLines(lines) ==
    IF Len(lines) = 0 THEN <<>>
    ELSE IF Len(lines) = 1 THEN lines[1]
         ELSE lines[1] \o <<"\n">> \o joinLines(Tail(lines))

RecognizedTexts == {joinLines(lines) : lines \in SeqsUpTo(RecognizedLines, MaxLines)}

(***************************************************************************)
(* The text rule as a state machine.                                       *)
(***************************************************************************)
InitSwatchText ==
    /\ ocrText \in RecognizedTexts
    /\ swatchOut = Null
    /\ referenceColors = <<>>
    /\ maxDistance = 150
    /\ swatches = Null
    /\ matchResult = Null
    /\ extractedColors = <<>>
    /\ validationResult = Null
    /\ validatorLog = <<>>
    /\ correctedColors = Null
    /\ revalidation = Null
    /\ RunsIdle

\* extractSwatchFromBoundary on a region whose recognised text is ocrText.
ExtractSwatchFromBoundary ==
    /\ swatchOut = Null
    /\ swatchOut' = [returned |-> swatchTextOf(ocrText)]
    /\ UNCHANGED ocrText
    /\ UNCHANGED <<matcherVars, validatorVars, runVars>>

NextSwatchText == ExtractSwatchFromBoundary

SpecSwatchText == InitSwatchText /\ [][NextSwatchText]_vars

(***************************************************************************)
(* Properties of the text rule.                                            *)
(***************************************************************************)
\* The first non-empty trimmed line of the recognised text, read off the
\* text: from its first character that is not white space to the last such
\* character before the next line break.
InkPositions == {k \in 1..Len(ocrText) : ocrText[k] \notin {" ", "\t", "\n", "\r"}}
HasNonEmptyLine == InkPositions # {}
FirstInk == CHOOSE k \in InkPositions : \A l \in InkPositions : k <= l
FirstLineInk ==
    {k \in InkPositions : \A l \in FirstInk..k : ocrText[l] # "\n"}
LastInkOfFirstLine == CHOOSE k \in FirstLineInk : \A l \in FirstLineInk : l <= k
FirstNonEmptyLine == SubSeq(ocrText, FirstInk, LastInkOfFirstLine)
FirstSixOf(line) == SubSeq(line, 1, IF Len(line) < 6 THEN Len(line) ELSE 6)

NonEmptyLineAfter(text, from) ==
    LET ink == {k \in (from + 1)..Len(text) : text[k] \notin {" ", "\t", "\n", "\r"}}
        start == CHOOSE k \in ink : \A l \in ink : k <= l
        lineInk == {k \in ink : \A l \in start..k : text[l] # "\n"}
        end == CHOOSE k \in lineInk : \A l \in lineInk : l <= k
    IN  IF ink = {} THEN [found |-> FALSE, end |-> Len(text), line |-> <<>>]
        ELSE [found |-> TRUE, end |-> end, line |-> SubSeq(text, start, end)]
\* The second non-empty trimmed line of the recognised text.
SecondLineOfText ==
    LET first == NonEmptyLineAfter(ocrText, 0)
    IN  NonEmptyLineAfter(ocrText, first.end)
HasSecondLine == SecondLineOfText.found
SecondNonEmptyLine == SecondLineOfText.line

\* A line with its pipe characters removed, its runs of white space made one
\* space and no white space at either end: the characters kept are the ink
\* and the first white space after ink that more ink follows.
IsSpace(c) == c \in {" ", "\t", "\n", "\r"}
WithoutPipes(line) == SelectSeq(line, LAMBDA c : c # "|")
CleanedName(line) ==
    LET p == WithoutPipes(line)
        kept == {k \in 1..Len(p) :
                    \/ ~IsSpace(p[k])
                    \/ /\ k > 1
                       /\ ~IsSpace(p[k - 1])
                       /\ \E l \in (k + 1)..Len(p) : ~IsSpace(p[l])}
        rank == [k \in kept |-> Cardinality({j \in kept : j <= k})]
        at == [i \in 1..Cardinality(kept) |-> CHOOSE k \in kept : rank[k] = i]
    IN  [i \in 1..Cardinality(kept) |-> IF IsSpace(p[at[i]]) THEN " " ELSE p[at[i]]]

\* What the first non-empty line holds beyond position 6, without the white
\* space around it.
FirstLineRemainder ==
    LET rest == SubSeq(FirstNonEmptyLine, 7, Len(FirstNonEmptyLine))
        ink == {k \in 1..Len(rest) : ~IsSpace(rest[k])}
    IN  IF ink = {} THEN <<>>
        ELSE SubSeq(rest, CHOOSE k \in ink : \A l \in ink : k <= l,
                          CHOOSE k \in ink : \A l \in ink : l <= k)
RemainderOrUnknown ==
    IF Len(FirstLineRemainder) > 2 THEN FirstLineRemainder
    ELSE <<"U", "n", "k", "n", "o", "w", "n">>

\* C11 as stated: whenever a second non-empty line exists the style name is
\* that line with pipes removed and white space runs made one space (the
\* placeholder "Unknown" when nothing is left of it); the remainder of the
\* first line beyond position 6 is the style name only when no second line
\* exists, and only when it is longer than 2 characters.
C11_StyleNameSecondLine ==
    (swatchOut # Null /\ HasNonEmptyLine) =>
        /\ swatchOut.returned # Null
        /\ HasSecondLine =>
               swatchOut.returned.styleName =
                   IF Len(CleanedName(SecondNonEmptyLine)) > 0
                   THEN CleanedName(SecondNonEmptyLine)
                   ELSE <<"U", "n", "k", "n", "o", "w", "n">>
        /\ ~HasSecondLine => swatchOut.returned.styleName = RemainderOrUnknown

\* C11 (amended): the style name is the second non-empty line with pipes
\* removed and white space runs made one space whenever something is left of
\* that line; when there is no second line, or nothing is left of it, the
\* style name is the remainder of the first line beyond position 6 if that
\* remainder is longer than 2 characters, and "Unknown" otherwise.
C11_StyleNameSecondLineOrRemainder ==
    (swatchOut # Null /\ HasNonEmptyLine) =>
        /\ swatchOut.returned # Null
        /\ (HasSecondLine /\ Len(CleanedName(SecondNonEmptyLine)) > 0) =>
               swatchOut.returned.styleName = CleanedName(SecondNonEmptyLine)
        /\ (~HasSecondLine \/ Len(CleanedName(SecondNonEmptyLine)) = 0) =>
               swatchOut.returned.styleName = RemainderOrUnknown

\* The example of the specification was parsed: lines "123456 SAMPLE" and
\* "My Style Name" give style name "My Style Name".
C11_Witness ==
    /\ ocrText = <<"1", "2", "3", "4", "5", "6", " ", "S", "A", "M", "P", "L", "E">>
                     \o <<"\n">> \o <<"M", "y", " ", "S", "t", "y", "l", "e", " ", "N", "a", "m", "e">>
    /\ swatchOut # Null
    /\ swatchOut.returned # Null
    /\ swatchOut.returned.styleName =
           <<"M", "y", " ", "S", "t", "y", "l", "e", " ", "N", "a", "m", "e">>

(***************************************************************************)
(* SwatchExtractor: the regions of a page                                  *)
(***************************************************************************)
MaxRows == 2        \* most rows detectRows hands to the extraction
MaxRegions == 3     \* most regions on one page

\* The state of everything outside the extraction runs while one is modelled.
CoreIdle ==
    /\ referenceColors = <<>>
    /\ maxDistance = 150
    /\ swatches = Null
    /\ matchResult = Null
    /\ extractedColors = <<>>
    /\ validationResult = Null
    /\ validatorLog = <<>>
    /\ correctedColors = Null
    /\ revalidation = Null
    /\ ocrText = <<>>
    /\ swatchOut = Null
coreVars == <<matcherVars, validatorVars, swatchTextVars>>

\* How the recognition call of a region ends: it resolves with a text, or
\* it throws (the promise is rejected).
Recognized(text) == [text |-> text]
Rejected == [rejected |-> TRUE]

\* What extractSwatchFromBoundary meets in one region: the end of the
\* recognition call and the colour boxes detectColorsInSwatch finds.
RegionInput(recognition, colors) == [recognition |-> recognition, colors |-> colors]
SwatchRegionInputs ==
    { RegionInput(Recognized(<<>>), <<>>),
      RegionInput(Recognized(<<" ", "\n", "\t">>), <<>>),
      RegionInput(Recognized(<<"1", "2", "3", "4", "5", "6", " ", "S", "A", "M", "P", "L", "E">>
                                 \o <<"\n">> \o <<"M", "y", " ", "S", "t", "y", "l", "e", " ", "N", "a", "m", "e">>),
                  <<>>),
      RegionInput(Recognized(<<"1", "2", "3", "4", "5">>), <<ColorBoxAt(1, 1, RGB(3, 4, 0))>>),
      RegionInput(Rejected, <<>>) }

\* The rows detectRows returns and the boundaries findSwatchBoundariesInRow
\* returns, as far as the extraction reads them: r rows 400 apart, n regions
\* of 300 columns.
RowBoundaryAt(i) == [startY |-> 400 * i - 300, endY |-> 400 * i - 50, height |-> 250]
RowsOf(r) == [i \in 1..r |-> RowBoundaryAt(i)]
SwatchBoundariesOf(n) == [j \in 1..n |-> [startX |-> 300 * (j - 1), endX |-> 300 * j - 1]]

\* Variant: a region whose text does not parse is emitted with placeholder
\* style fields.
extractSwatchFromBoundaryWithoutNullCheck(boundary, row, given) ==
    LET swatchWidth == boundary.endX - boundary.startX
        boundingBox == [x |-> boundary.startX, y |-> row.startY,
                        width |-> swatchWidth, height |-> row.height]
    IN  IF given.recognition = Rejected THEN Null
        ELSE LET textInfo == swatchTextOf(given.recognition.text)
             IN  [styleNumber |-> IF textInfo = Null THEN StrUnknown ELSE textInfo.styleNumber,
                  styleName   |-> IF textInfo = Null THEN StrUnknown ELSE textInfo.styleName,
                  colors      |-> given.colors,
                  boundingBox |-> boundingBox]

\* extractSwatchFromBoundary: the SwatchGroup of a region, or null when the
\* recognition call throws (the catch of the method) or the text does not
\* parse.
extractSwatchFromBoundary(boundary, row, given) ==
    LET swatchWidth == boundary.endX - boundary.startX
        boundingBox == [x |-> boundary.startX, y |-> row.startY,
                        width |-> swatchWidth, height |-> row.height]
    IN  IF given.recognition = Rejected THEN Null
        ELSE LET textInfo == swatchTextOf(given.recognition.text)
             IN  IF textInfo = Null THEN Null
                 ELSE [styleNumber |-> textInfo.styleNumber,
                       styleName   |-> textInfo.styleName,
                       colors      |-> given.colors,
                       boundingBox |-> boundingBox]

\* extractRowStartingPortions is entered with the rows of detectRows.
\* row and swatch are the indices of its loop and of the loop of
\* extractSwatchGroupsFromRow; found holds the number of boundaries
\* findSwatchBoundariesInRow returned for each row so far, regions the
\* regions handed to extractSwatchFromBoundary so far.
InitSwatchRun ==
    /\ \E r \in 0..MaxRows :
           swatchRun = [pc               |-> "rows",
                        rows             |-> RowsOf(r),
                        row              |-> 0,
                        swatchBoundaries |-> <<>>,
                        swatch           |-> 0,
                        swatches         |-> <<>>,
                        allSwatches      |-> <<>>,
                        found            |-> <<>>,
                        regions          |-> <<>>]
    /\ referenceRun = Null
    /\ boxScan = Null
    /\ colorSample = Null
    /\ pixel = Null
    /\ rowScan = Null
    /\ lineScan = Null
    /\ anchorScan = Null

InitSwatchPage == CoreIdle /\ InitSwatchRun

RECURSIVE SumOf(_)
SumOf(ns) == IF Len(ns) = 0 THEN 0 ELSE Head(ns) + SumOf(Tail(ns))

\* extractSwatchGroupsFromRow is entered for the next row and finds n
\* swatch boundaries in it.
ExtractSwatchGroupsFromRow(n) ==
    /\ swatchRun # Null
    /\ swatchRun.pc = "rows"
    /\ swatchRun.row < Len(swatchRun.rows)
    /\ SumOf(swatchRun.found) + n <= MaxRegions
    /\ swatchRun' = [swatchRun EXCEPT !.pc = "row",
                                      !.swatchBoundaries = SwatchBoundariesOf(n),
                                      !.swatch = 0,
                                      !.swatches = <<>>,
                                      !.found = Append(@, n)]
    /\ UNCHANGED <<referenceRun, boxScan, colorSample, pixel, rowScan, lineScan, anchorScan>>
    /\ UNCHANGED coreVars

\* One turn of the loop of extractSwatchGroupsFromRow: the region is handed
\* to extractSwatchFromBoundary and its swatch, if any, is pushed.
ExtractSwatch(given) ==
    /\ swatchRun # Null
    /\ swatchRun.pc = "row"
    /\ swatchRun.swatch < Len(swatchRun.swatchBoundaries)
    /\ LET boundary == swatchRun.swatchBoundaries[swatchRun.swatch + 1]
           row == swatchRun.rows[swatchRun.row + 1]
           swatch == extractSwatchFromBoundary(boundary, row, given)
       IN  swatchRun' = [swatchRun EXCEPT
                            !.swatches = IF swatch # Null THEN Append(@, swatch) ELSE @,
                            !.swatch = @ + 1,
                            !.regions = Append(@, [rowNumber    |-> swatchRun.row + 1,
                                                   swatchNumber |-> swatchRun.swatch + 1,
                                                   boundary     |-> boundary,
                                                   row          |-> row,
                                                   given        |-> given])]
    /\ UNCHANGED <<referenceRun, boxScan, colorSample, pixel, rowScan, lineScan, anchorScan>>
    /\ UNCHANGED coreVars

\* extractSwatchGroupsFromRow returns and its swatches are pushed onto
\* allSwatches.
ReturnRowSwatches ==
    /\ swatchRun # Null
    /\ swatchRun.pc = "row"
    /\ swatchRun.swatch = Len(swatchRun.swatchBoundaries)
    /\ swatchRun' = [swatchRun EXCEPT !.pc = "rows",
                                      !.allSwatches = @ \o swatchRun.swatches,
                                      !.row = @ + 1]
    /\ UNCHANGED <<referenceRun, boxScan, colorSample, pixel, rowScan, lineScan, anchorScan>>
    /\ UNCHANGED coreVars

\* extractRowStartingPortions returns allSwatches.
ReturnAllSwatches ==
    /\ swatchRun # Null
    /\ swatchRun.pc = "rows"
    /\ swatchRun.row = Len(swatchRun.rows)
    /\ swatchRun' = [swatchRun EXCEPT !.pc = "done"]
    /\ UNCHANGED <<referenceRun, boxScan, colorSample, pixel, rowScan, lineScan, anchorScan>>
    /\ UNCHANGED coreVars

NextSwatchPage ==
    \/ \E n \in 0..MaxRegions : ExtractSwatchGroupsFromRow(n)
    \/ \E given \in SwatchRegionInputs : ExtractSwatch(given)
    \/ ReturnRowSwatches
    \/ ReturnAllSwatches

SpecSwatchPage == InitSwatchPage /\ [][NextSwatchPage]_vars

(***************************************************************************)
(* Properties of the page run of the swatch extraction.                    *)
(***************************************************************************)
SwatchRunDone == swatchRun # Null /\ swatchRun.pc = "done"
\* A recognised text without a non-empty line: white space only.
IsBlankText(text) == \A k \in 1..Len(text) : text[k] \in {" ", "\t", "\n", "\r"}
RegionIsBlank(region) ==
    /\ region.given.recognition # Rejected
    /\ IsBlankText(region.given.recognition.text)
RegionIsLegible(region) ==
    /\ region.given.recognition # Rejected
    /\ ~IsBlankText(region.given.recognition.text)
\* The swatches returned for a region: those at its place on the page.
SwatchesOfRegion(region) ==
    {k \in 1..Len(swatchRun.allSwatches) :
        /\ swatchRun.allSwatches[k].boundingBox.x = region.boundary.startX
        /\ swatchRun.allSwatches[k].boundingBox.y = region.row.startY}

\* C12: when the page run has returned, a region whose recognised text has
\* no non-empty line (the empty string included) has no swatch in the
\* result, every boundary of every row was handed to the extraction, and
\* every region whose text has a non-empty line has exactly one swatch in
\* the result, whatever regions came before it.
C12_BlankRegionSkippedOthersKept ==
    SwatchRunDone =>
        /\ Len(swatchRun.found) = Len(swatchRun.rows)
        /\ Len(swatchRun.regions) = SumOf(swatchRun.found)
        /\ \A k \in 1..Len(swatchRun.regions) :
               LET region == swatchRun.regions[k]
               IN  /\ RegionIsBlank(region) =>
                          /\ swatchTextOf(region.given.recognition.text) = Null
                          /\ SwatchesOfRegion(region) = {}
                   /\ RegionIsLegible(region) =>
                          Cardinality(SwatchesOfRegion(region)) = 1

\* A page run returned on which a blank region is followed by a legible
\* region of the same row and by a legible region of the next row, both of
\* them in the result.
C12_Witness ==
    /\ SwatchRunDone
    /\ Len(swatchRun.regions) = 3
    /\ RegionIsBlank(swatchRun.regions[1])
    /\ swatchRun.regions[1].given.recognition.text = <<>>
    /\ RegionIsLegible(swatchRun.regions[2])
    /\ swatchRun.regions[2].rowNumber = 1
    /\ RegionIsLegible(swatchRun.regions[3])
    /\ swatchRun.regions[3].rowNumber = 2
    /\ Len(swatchRun.allSwatches) = 2

(***************************************************************************)
(* ReferenceColorExtractor: the text of a reference colour box             *)
(***************************************************************************)
UpperChars ==
    {"A", "B", "C", "D", "E", "F", "G", "H", "I", "J", "K", "L", "M",
     "N", "O", "P", "Q", "R", "S", "T", "U", "V", "W", "X", "Y", "Z"}
LowerChars ==
    {"a", "b", "c", "d", "e", "f", "g", "h", "i", "j", "k", "l", "m",
     "n", "o", "p", "q", "r", "s", "t", "u", "v", "w", "x", "y", "z"}
\* [A-Z] and \w of the patterns
IsUpper(c) == c \in UpperChars
IsWordChar(c) == c \in UpperChars \/ c \in LowerChars \/ IsDigit(c) \/ c = "_"

\* The length of the run of digits (\d+, greedy) of str from position k on.
RECURSIVE digitsFrom(_, _)
digitsFrom(str, k) ==
    IF k <= Len(str) /\ IsDigit(str[k]) THEN 1 + digitsFrom(str, k + 1) ELSE 0
\* The length of the run of white space (\s*) of str from position k on.
RECURSIVE spacesFrom(_, _)
spacesFrom(str, k) ==
    IF k <= Len(str) /\ str[k] \in WhiteSpace THEN 1 + spacesFrom(str, k + 1) ELSE 0

\* matches[0] of str.match(pattern) with a global pattern: the leftmost
\* match, Null when match returns null. endAt(i) is the last position of the
\* match that starts at i, 0 when the pattern does not match there.
FirstMatch(str, endAt(_)) ==
    LET starts == {i \in 1..Len(str) : endAt(i) > 0}
    IN  IF starts = {} THEN Null
        ELSE LET i == CHOOSE s \in starts : \A t \in starts : s <= t
             IN  Some(SubSeq(str, i, endAt(i)))

\* /([A-Z]\d{2,6})/g
matchCodeTwoToSixDigits(str) ==
    LET endAt(i) == IF IsUpper(str[i]) /\ digitsFrom(str, i + 1) >= 2
                    THEN i + Min(digitsFrom(str, i + 1), 6) ELSE 0
    IN  FirstMatch(str, endAt)
\* /([A-Z]\d+[A-Z]?)/g
matchCodeWithSuffix(str) ==
    LET endAt(i) == IF IsUpper(str[i]) /\ digitsFrom(str, i + 1) >= 1
                    THEN LET e == i + digitsFrom(str, i + 1)
                         IN  IF e < Len(str) /\ IsUpper(str[e + 1]) THEN e + 1 ELSE e
                    ELSE 0
    IN  FirstMatch(str, endAt)
\* /\b([A-Z]\d{2,})\b/g
matchCodeAsWord(str) ==
    LET endAt(i) == IF /\ IsUpper(str[i])
                       /\ (i = 1 \/ ~IsWordChar(str[i - 1]))
                       /\ digitsFrom(str, i + 1) >= 2
                       /\ LET e == i + digitsFrom(str, i + 1)
                          IN  e = Len(str) \/ ~IsWordChar(str[e + 1])
                    THEN i + digitsFrom(str, i + 1) ELSE 0
    IN  FirstMatch(str, endAt)
\* /([A-Z]\d+)[^\w]/g
matchCodeBeforePunctuation(str) ==
    LET endAt(i) == IF /\ IsUpper(str[i])
                       /\ digitsFrom(str, i + 1) >= 1
                       /\ LET e == i + digitsFrom(str, i + 1)
                          IN  e < Len(str) /\ ~IsWordChar(str[e + 1])
                    THEN i + digitsFrom(str, i + 1) + 1 ELSE 0
    IN  FirstMatch(str, endAt)
\* /^([A-Z]\d+)/g
matchCodeAtStart(str) ==
    LET endAt(i) == IF i = 1 /\ IsUpper(str[i]) /\ digitsFrom(str, i + 1) >= 1
                    THEN i + digitsFrom(str, i + 1) ELSE 0
    IN  FirstMatch(str, endAt)

\* A Pantone pattern \d{lead}-\d{least,most}\s*TCX at position i: the last
\* position of the match, 0 when there is none.
pantoneEndAt(str, i, lead, least, most) ==
    LET dash == i + lead
        d == digitsFrom(str, dash + 1)
        t == dash + d + spacesFrom(str, dash + d + 1) + 1
    IN  IF /\ \A k \in i..(dash - 1) : k <= Len(str) /\ IsDigit(str[k])
           /\ dash <= Len(str) /\ str[dash] = "-"
           /\ d >= least /\ d <= most
           /\ t + 2 <= Len(str)
           /\ SubSeq(str, t, t + 2) = <<"T", "C", "X">>
        THEN t + 2 ELSE 0
\* /(\d{2}-\d{4}\s*TCX)/g
matchPantoneStandard(str) ==
    LET endAt(i) == pantoneEndAt(str, i, 2, 4, 4) IN FirstMatch(str, endAt)
\* /(\d{1,2}-\d{4}\s*TCX)/g
matchPantoneShortPrefix(str) ==
    LET endAt(i) == Max(pantoneEndAt(str, i, 2, 4, 4), pantoneEndAt(str, i, 1, 4, 4))
    IN  FirstMatch(str, endAt)
\* /(\d{2}-\d{3,5}\s*TCX)/g
matchPantoneFlexible(str) ==
    LET endAt(i) == pantoneEndAt(str, i, 2, 3, 5) IN FirstMatch(str, endAt)

\* The first pattern of a list that matches gives the match.
RECURSIVE firstOf(_)
firstOf(matches) ==
    IF Len(matches) = 0 THEN Null
    ELSE IF Head(matches) # Null THEN Head(matches) ELSE firstOf(Tail(matches))

\* String.prototype.replace(/[^\w]/g, '')
RECURSIVE removeNonWord(_)
removeNonWord(str) ==
    IF Len(str) = 0 THEN <<>>
    ELSE IF IsWordChar(Head(str)) THEN <<Head(str)>> \o removeNonWord(Tail(str))
         ELSE removeNonWord(Tail(str))

\* Array.prototype.join(' ')
RECURSIVE joinSpace(_)
joinSpace(strs) ==
    IF Len(strs) = 0 THEN <<>>
    ELSE IF Len(strs) = 1 THEN strs[1]
         ELSE strs[1] \o <<" ">> \o joinSpace(Tail(strs))

\* colorCode.length >= 2 && colorCode.match(/^[A-Z]\d+/)
isValidColorCode(colorCode) ==
    /\ Len(colorCode) >= 2
    /\ IsUpper(colorCode[1])
    /\ IsDigit(colorCode[2])

\* The test a line passes to be taken as the colour name.
isColorNameLine(cleanLine) ==
    /\ Len(cleanLine) > 2
    /\ ~includes(cleanLine, <<"T", "C", "X">>)
    /\ ~(IsUpper(cleanLine[1]) /\ digitsFrom(cleanLine, 2) = Len(cleanLine) - 1)
    /\ ~IsDigit(cleanLine[1])
    /\ ~(\A k \in 1..Len(cleanLine) : cleanLine[k] \in WhiteSpace \cup {"_", "-"})
RECURSIVE colorNameFrom(_)
colorNameFrom(lines) ==
    IF Len(lines) = 0 THEN <<>>
    ELSE IF isColorNameLine(trim(Head(lines))) THEN trim(Head(lines))
         ELSE colorNameFrom(Tail(lines))

\* The colour code of parseColorBoxTextEnhanced before its validity test.
colorCodeOf(allText) ==
    LET found == firstOf(<<matchCodeTwoToSixDigits(allText), matchCodeWithSuffix(allText),
                           matchCodeAsWord(allText), matchCodeBeforePunctuation(allText),
                           matchCodeAtStart(allText)>>)
    IN  IF found = Null THEN <<>> ELSE removeNonWord(found.some)

\* parseColorBoxTextEnhanced
parseColorBoxTextEnhanced(lines) ==
    LET allText == joinSpace(lines)
        colorCode == colorCodeOf(allText)
        pantone == firstOf(<<matchPantoneStandard(allText), matchPantoneShortPrefix(allText),
                             matchPantoneFlexible(allText)>>)
        colorName == colorNameFrom(lines)
    IN  IF isValidColorCode(colorCode)
        THEN [colorCode    |-> colorCode,
              colorName    |-> IF Len(colorName) > 0 THEN colorName ELSE StrUnknown,
              pantoneColor |-> IF pantone # Null THEN pantone.some ELSE StrUnknown]
        ELSE Null

\* Number.prototype.toString() of a natural number
RECURSIVE toString10(_)
toString10(n) ==
    IF n < 10 THEN <<DecDigits[n + 1]>>
    ELSE toString10(n \div 10) \o <<DecDigits[(n % 10) + 1]>>
\* String.prototype.padStart(3, '0')
padStart3(str) ==
    IF Len(str) >= 3 THEN str ELSE [k \in 1..(3 - Len(str)) |-> "0"] \o str

\* generateFallbackColorCode
generateFallbackColorCode(x, color) ==
    LET section == (x \div 200) + 1
        colorHash == (color.r + color.g + color.b) % 1000
    IN  <<"C">> \o toString10(section) \o padStart3(toString10(colorHash))

\* One recognised-text variant of performMultipleOCRAttempts, made of the
\* data.text of a recognition call.
RECURSIVE filterNonBlank(_)
filterNonBlank(lines) ==
    IF Len(lines) = 0 THEN <<>>
    ELSE IF Len(trim(Head(lines))) > 0
         THEN <<Head(lines)>> \o filterNonBlank(Tail(lines))
         ELSE filterNonBlank(Tail(lines))
attemptOf(dataText) ==
    [text |-> trim(dataText), lines |-> filterNonBlank(splitLines(dataText))]

VariantCount == 5

\* Variant: a recognition call that throws discards the variants pushed
\* before it.
performMultipleOCRAttemptsAllOrNone(recognitions) ==
    IF \E k \in 1..Len(recognitions) : recognitions[k] = Rejected THEN <<>>
    ELSE [k \in 1..Len(recognitions) |-> attemptOf(recognitions[k].text)]
\* performMultipleOCRAttempts: the variants pushed before the first
\* recognition call that throws, all of them when none does.
RECURSIVE performMultipleOCRAttempts(_)
performMultipleOCRAttempts(recognitions) ==
    IF Len(recognitions) = 0 \/ Head(recognitions) = Rejected THEN <<>>
    ELSE <<attemptOf(Head(recognitions).text)>>
             \o performMultipleOCRAttempts(Tail(recognitions))

\* Variant: the parse of the last variant that passes the validity test.
RECURSIVE lastColorInfoOf(_)
lastColorInfoOf(ocrAttempts) ==
    IF Len(ocrAttempts) = 0 THEN Null
    ELSE LET later == lastColorInfoOf(Tail(ocrAttempts))
             colorInfo == parseColorBoxTextEnhanced(Head(ocrAttempts).lines)
         IN  IF later # Null THEN later
             ELSE IF colorInfo # Null /\ isValidColorCode(colorInfo.colorCode)
                  THEN colorInfo
                  ELSE Null

\* The loop of extractColorInfoEnhanced over the variants: the parse of the
\* first variant that passes the validity test, Null when none does.
RECURSIVE bestColorInfoOf(_)
bestColorInfoOf(ocrAttempts) ==
    IF Len(ocrAttempts) = 0 THEN Null
    ELSE LET colorInfo == parseColorBoxTextEnhanced(Head(ocrAttempts).lines)
         IN  IF colorInfo # Null /\ isValidColorCode(colorInfo.colorCode)
             THEN colorInfo
             ELSE bestColorInfoOf(Tail(ocrAttempts))

\* The colour code the fallback patterns find in the joined variants, Null
\* when none matches.
looseColorCodeOf(allText) ==
    firstOf(<<matchCodeTwoToSixDigits(allText), matchCodeWithSuffix(allText),
              matchCodeAsWord(allText)>>)

StrColor == <<"C", "o", "l", "o", "r", " ">>

\* Variant: the final fallback named after its code, as the pattern
\* fallback names its entry.
finalFallbackNamedByCode(boundingBox, regionColor) ==
    LET fallbackColorCode == generateFallbackColorCode(boundingBox.x, regionColor)
    IN  [colorCode    |-> fallbackColorCode,
         colorName    |-> StrColor \o fallbackColorCode,
         pantoneColor |-> StrUnknown,
         rgb          |-> regionColor,
         hex          |-> rgbToHex(regionColor.r, regionColor.g, regionColor.b),
         boundingBox  |-> boundingBox]

\* The final fallback of extractColorInfoEnhanced.
finalFallback(boundingBox, regionColor) ==
    LET fallbackColorCode == generateFallbackColorCode(boundingBox.x, regionColor)
    IN  [colorCode    |-> fallbackColorCode,
         colorName    |-> StrColorAt \o toString10(boundingBox.x),
         pantoneColor |-> StrUnknown,
         rgb          |-> regionColor,
         hex          |-> rgbToHex(regionColor.r, regionColor.g, regionColor.b),
         boundingBox  |-> boundingBox]

\* What extractColorInfoEnhanced meets in one region: whether extractRegion
\* throws, and how the recognition calls end.
ReferenceInput(regionThrows, recognitions) ==
    [regionThrows |-> regionThrows, recognitions |-> recognitions]

\* extractColorInfoEnhanced: the ReferenceColor of a region, null when
\* something throws outside performMultipleOCRAttempts.
extractColorInfoEnhanced(boundingBox, regionColor, given) ==
    IF given.regionThrows THEN Null
    ELSE
    LET ocrAttempts == performMultipleOCRAttempts(given.recognitions)
        bestColorInfo == bestColorInfoOf(ocrAttempts)
        hex == rgbToHex(regionColor.r, regionColor.g, regionColor.b)
        allText == joinSpace([k \in 1..Len(ocrAttempts) |-> ocrAttempts[k].text])
        colorCodeMatch == looseColorCodeOf(allText)
        pantoneMatch == matchPantoneShortPrefix(allText)
    IN  IF bestColorInfo # Null
        THEN [colorCode    |-> bestColorInfo.colorCode,
              colorName    |-> bestColorInfo.colorName,
              pantoneColor |-> bestColorInfo.pantoneColor,
              rgb          |-> regionColor,
              hex          |-> hex,
              boundingBox  |-> boundingBox]
        ELSE IF colorCodeMatch # Null
        THEN LET cleanedCode == removeNonWord(colorCodeMatch.some)
             IN  [colorCode    |-> cleanedCode,
                  colorName    |-> StrColor \o cleanedCode,
                  pantoneColor |-> IF pantoneMatch # Null THEN pantoneMatch.some
                                                          ELSE StrUnknown,
                  rgb          |-> regionColor,
                  hex          |-> hex,
                  boundingBox  |-> boundingBox]
        ELSE finalFallback(boundingBox, regionColor)

(***************************************************************************)
(* Inputs of the reference text interpretation.                            *)
(***************************************************************************)
\* Texts as the recognition engine may return them: a full read with a
\* Pantone code, a second read, nothing, noise, a code with a letter after
\* its digits, a code of one digit, and a code torn over two reads.
TextFullRead == <<"B", "6", "0", "0", "0", "2", "\n", "N", "e", "w", " ", "B", "l", "a", "c", "k", "\n", "1", "9", "-", "4", "0", "0", "5", " ", "T", "C", "X">>
TextSecondRead == <<"E", "2", "0", "1", "1", " ", "R", "e", "d">>
TextNoise == <<"x", "-", "1", " ", "?">>
TextCodeWithSuffix == <<"B", "2", "X">>
TextCodeOneDigit == <<"Q", "7", ".">>
TextLetterOnly == <<"B">>
TextDigitsOnly == <<"2", "2">>

AllVariants(text) == [k \in 1..VariantCount |-> Recognized(text)]

ReferenceRegionInputs ==
    { ReferenceInput(FALSE, AllVariants(TextFullRead)),
      ReferenceInput(FALSE, <<Recognized(<<>>), Recognized(TextSecondRead)>>
                                \o [k \in 1..(VariantCount - 2) |-> Recognized(TextFullRead)]),
      ReferenceInput(FALSE, <<Recognized(TextNoise), Recognized(<<>>)>>
                                \o [k \in 1..(VariantCount - 2) |-> Recognized(TextNoise)]),
      ReferenceInput(FALSE, <<Recognized(TextLetterOnly), Recognized(TextDigitsOnly)>>
                                \o [k \in 1..(VariantCount - 2) |-> Recognized(<<>>)]),
      ReferenceInput(FALSE, <<Rejected>>),
      ReferenceInput(FALSE, <<Recognized(TextFullRead), Rejected>>),
      ReferenceInput(FALSE, AllVariants(TextCodeWithSuffix)),
      ReferenceInput(FALSE, AllVariants(TextCodeOneDigit)),
      ReferenceInput(TRUE, <<>>) }

(***************************************************************************)
(* ReferenceColorExtractor: the regions of a page                          *)
(***************************************************************************)
MaxAnchorBoxes == 2   \* most anchor boxes on one page
MaxColorBoxes == 2    \* most reference colour boxes on one page

\* The anchor boxes findRedAnchorBoxes returns, as far as the extraction
\* reads them: r boxes in the left margin, 150 rows apart.
AnchorBoxAt(k) == Box(20, 150 * k - 50, 40, 60)
AnchorBoxesOf(r) == [k \in 1..r |-> AnchorBoxAt(k)]

\* The height of the page image.
ImageHeight == 2000

\* Colour boxes as findColorBoxesInRow and detectColorBoxBoundaries return
\* them, in the order of the scan: at the left edge, within the first 200
\* columns, and far enough right for a section number of two digits.
ColorBoxRegion(x, y, avgColor) ==
    [x |-> x, y |-> y, width |-> 50, height |-> 60, avgColor |-> avgColor]
SampleColorBoxes(y) ==
    << ColorBoxRegion(0, y, RGB(0, 0, 0)),
       ColorBoxRegion(75, y, RGB(40, 80, 120)),
       ColorBoxRegion(1800, y, RGB(255, 255, 255)),
       ColorBoxRegion(2345, y, RGB(171, 205, 239)) >>
ColorBoxRuns(y, n) ==
    {SubSeq(SampleColorBoxes(y), a, a + n - 1) :
        a \in {a \in {1, 3} : a + n - 1 <= Len(SampleColorBoxes(y))}}

\* extractReferenceColorsWithRedBoxes is entered and findRedAnchorBoxes has
\* returned. row and box are the indices of its two loops (box is also the
\* index of the loop of extractColorsWithFallback); found holds the number
\* of colour boxes found for each row so far, regions the regions handed to
\* extractColorInfoEnhanced so far.
InitReferenceRun ==
    /\ \E r \in 0..MaxAnchorBoxes :
           referenceRun = [pc              |-> "start",
                           redAnchorBoxes  |-> AnchorBoxesOf(r),
                           row             |-> 0,
                           colorBoxes      |-> <<>>,
                           box             |-> 0,
                           referenceColors |-> <<>>,
                           found           |-> <<>>,
                           regions         |-> <<>>,
                           returned        |-> Null]
    /\ swatchRun = Null
    /\ boxScan = Null
    /\ colorSample = Null
    /\ pixel = Null
    /\ rowScan = Null
    /\ lineScan = Null
    /\ anchorScan = Null

InitReferencePage == CoreIdle /\ InitReferenceRun

\* Variant: the percentage-based detection is entered whatever the anchor
\* detection returned.
ExtractColorsWithFallbackWhenever(colorBoxes) ==
    /\ referenceRun # Null
    /\ referenceRun.pc = "start"
    /\ referenceRun' = [referenceRun EXCEPT !.pc = "fallback",
                                            !.colorBoxes = colorBoxes,
                                            !.box = 0,
                                            !.found = Append(@, Len(colorBoxes))]
    /\ UNCHANGED <<swatchRun, boxScan, colorSample, pixel, rowScan, lineScan, anchorScan>>
    /\ UNCHANGED coreVars
\* No anchor box was found: extractColorsWithFallback is entered and
\* detectColorBoxBoundaries returns its colour boxes.
ExtractColorsWithFallback(colorBoxes) ==
    /\ referenceRun # Null
    /\ referenceRun.pc = "start"
    /\ Len(referenceRun.redAnchorBoxes) = 0
    /\ referenceRun' = [referenceRun EXCEPT !.pc = "fallback",
                                            !.colorBoxes = colorBoxes,
                                            !.box = 0,
                                            !.found = Append(@, Len(colorBoxes))]
    /\ UNCHANGED <<swatchRun, boxScan, colorSample, pixel, rowScan, lineScan, anchorScan>>
    /\ UNCHANGED coreVars

\* One turn of the loop of extractColorsWithFallback.
ExtractFallbackColorInfo(given) ==
    /\ referenceRun # Null
    /\ referenceRun.pc = "fallback"
    /\ referenceRun.box < Len(referenceRun.colorBoxes)
    /\ LET box == referenceRun.colorBoxes[referenceRun.box + 1]
           textBoundingBox == Box(box.x, box.y + box.height, box.width,
                                  (ImageHeight * 15 + 50) \div 100)
           colorInfo == extractColorInfoEnhanced(textBoundingBox, box.avgColor, given)
       IN  referenceRun' = [referenceRun EXCEPT
                               !.referenceColors =
                                   IF colorInfo # Null THEN Append(@, colorInfo) ELSE @,
                               !.box = @ + 1,
                               !.regions = Append(@, [boundingBox |-> textBoundingBox,
                                                      avgColor    |-> box.avgColor,
                                                      given       |-> given])]
    /\ UNCHANGED <<swatchRun, boxScan, colorSample, pixel, rowScan, lineScan, anchorScan>>
    /\ UNCHANGED coreVars

\* extractColorsWithFallback returns and its colours are returned with an
\* empty list of anchor boxes.
ReturnFallbackColors ==
    /\ referenceRun # Null
    /\ referenceRun.pc = "fallback"
    /\ referenceRun.box = Len(referenceRun.colorBoxes)
    /\ referenceRun' = [referenceRun EXCEPT
                           !.pc = "done",
                           !.returned = [referenceColors |-> referenceRun.referenceColors,
                                         redAnchorBoxes  |-> <<>>]]
    /\ UNCHANGED <<swatchRun, boxScan, colorSample, pixel, rowScan, lineScan, anchorScan>>
    /\ UNCHANGED coreVars

\* The loop over the anchor boxes is entered.
ScanAnchorRows ==
    /\ referenceRun # Null
    /\ referenceRun.pc = "start"
    /\ Len(referenceRun.redAnchorBoxes) > 0
    /\ referenceRun' = [referenceRun EXCEPT !.pc = "rows"]
    /\ UNCHANGED <<swatchRun, boxScan, colorSample, pixel, rowScan, lineScan, anchorScan>>
    /\ UNCHANGED coreVars

\* findColorBoxesInRow returns the colour boxes of the next anchor box.
FindColorBoxesInRow(colorBoxes) ==
    /\ referenceRun # Null
    /\ referenceRun.pc = "rows"
    /\ referenceRun.row < Len(referenceRun.redAnchorBoxes)
    /\ referenceRun' = [referenceRun EXCEPT !.pc = "row",
                                            !.colorBoxes = colorBoxes,
                                            !.box = 0,
                                            !.found = Append(@, Len(colorBoxes))]
    /\ UNCHANGED <<swatchRun, boxScan, colorSample, pixel, rowScan, lineScan, anchorScan>>
    /\ UNCHANGED coreVars

\* One turn of the loop over the colour boxes of an anchor box.
ExtractColorInfo(given) ==
    /\ referenceRun # Null
    /\ referenceRun.pc = "row"
    /\ referenceRun.box < Len(referenceRun.colorBoxes)
    /\ LET redBox == referenceRun.redAnchorBoxes[referenceRun.row + 1]
           box == referenceRun.colorBoxes[referenceRun.box + 1]
           textBoundingBox == Box(box.x, redBox.y, box.width, redBox.height)
           colorInfo == extractColorInfoEnhanced(textBoundingBox, box.avgColor, given)
       IN  referenceRun' = [referenceRun EXCEPT
                               !.referenceColors =
                                   IF colorInfo # Null THEN Append(@, colorInfo) ELSE @,
                               !.box = @ + 1,
                               !.regions = Append(@, [boundingBox |-> textBoundingBox,
                                                      avgColor    |-> box.avgColor,
                                                      given       |-> given])]
    /\ UNCHANGED <<swatchRun, boxScan, colorSample, pixel, rowScan, lineScan, anchorScan>>
    /\ UNCHANGED coreVars

\* The colour boxes of an anchor box are done: on to the next anchor box.
NextAnchorRow ==
    /\ referenceRun # Null
    /\ referenceRun.pc = "row"
    /\ referenceRun.box = Len(referenceRun.colorBoxes)
    /\ referenceRun' = [referenceRun EXCEPT !.pc = "rows", !.row = @ + 1]
    /\ UNCHANGED <<swatchRun, boxScan, colorSample, pixel, rowScan, lineScan, anchorScan>>
    /\ UNCHANGED coreVars

\* extractReferenceColorsWithRedBoxes returns the colours of the anchor rows.
ReturnReferenceColors ==
    /\ referenceRun # Null
    /\ referenceRun.pc = "rows"
    /\ referenceRun.row = Len(referenceRun.redAnchorBoxes)
    /\ referenceRun' = [referenceRun EXCEPT
                           !.pc = "done",
                           !.returned = [referenceColors |-> referenceRun.referenceColors,
                                         redAnchorBoxes  |-> referenceRun.redAnchorBoxes]]
    /\ UNCHANGED <<swatchRun, boxScan, colorSample, pixel, rowScan, lineScan, anchorScan>>
    /\ UNCHANGED coreVars

\* The colour boxes a scan may return while the page stays within
\* MaxColorBoxes: those of the fallback detection at the row it settles on,
\* those of an anchor row at the top of its anchor box.
ColorBoxChoices ==
    IF referenceRun = Null \/ referenceRun.pc \notin {"start", "rows"} THEN {}
    ELSE LET y == IF referenceRun.row < Len(referenceRun.redAnchorBoxes)
                  THEN referenceRun.redAnchorBoxes[referenceRun.row + 1].y
                  ELSE (ImageHeight * 118 + 500) \div 1000
         IN  UNION {ColorBoxRuns(y, n) :
                        n \in 0..(MaxColorBoxes - SumOf(referenceRun.found))}

NextReferencePage ==
    \/ \E colorBoxes \in ColorBoxChoices : ExtractColorsWithFallback(colorBoxes)
    \/ \E given \in ReferenceRegionInputs : ExtractFallbackColorInfo(given)
    \/ ReturnFallbackColors
    \/ ScanAnchorRows
    \/ \E colorBoxes \in ColorBoxChoices : FindColorBoxesInRow(colorBoxes)
    \/ \E given \in ReferenceRegionInputs : ExtractColorInfo(given)
    \/ NextAnchorRow
    \/ ReturnReferenceColors

SpecReferencePage == InitReferencePage /\ [][NextReferencePage]_vars

(***************************************************************************)
(* Properties of the page run of the reference extraction.                 *)
(***************************************************************************)
ReferenceRunDone == referenceRun # Null /\ referenceRun.pc = "done"
\* The recognised texts of a region that became variants: those before the
\* first recognition call that threw.
VariantTexts(region) ==
    LET recognitions == region.given.recognitions
        thrown == {k \in 1..Len(recognitions) : recognitions[k] = Rejected}
        last == IF thrown = {} THEN Len(recognitions)
                ELSE (CHOOSE k \in thrown : \A l \in thrown : k <= l) - 1
    IN  [k \in 1..last |-> recognitions[k].text]
\* A text holds a colour code when an uppercase letter is followed by a digit.
HoldsCode(text) ==
    \E k \in 1..(Len(text) - 1) :
        text[k] \in UpperChars /\ text[k + 1] \in DigitChars
\* A region none of whose variants holds a code: the final fallback's case.
RegionUnread(region) ==
    /\ ~region.given.regionThrows
    /\ \A k \in 1..Len(VariantTexts(region)) : ~HoldsCode(VariantTexts(region)[k])
\* The entries returned for a region: those at its place on the page.
EntriesOfRegion(region) ==
    {k \in 1..Len(referenceRun.referenceColors) :
        referenceRun.referenceColors[k].boundingBox = region.boundingBox}

\* C13: every entry made by the final fallback, that is the entry of every
\* region none of whose variants holds a code, at whatever x and of
\* whatever colour, is classified as an OCR failure by the validator.
C13_FallbackEntryIsOcrFailure ==
    referenceRun # Null =>
        \A k \in 1..Len(referenceRun.regions) :
            LET region == referenceRun.regions[k]
            IN  RegionUnread(region) =>
                    /\ \E e \in EntriesOfRegion(region) :
                           referenceRun.referenceColors[e].colorName =
                               <<"C", "o", "l", "o", "r", " ", "a", "t", " ">>
                                   \o toString10(region.boundingBox.x)
                    /\ \A e \in EntriesOfRegion(region) :
                           isOCRFailure(referenceRun.referenceColors[e])

\* A fallback entry was made at x = 1800, where the section number has two
\* digits and the code six characters, and one at x = 0.
C13_Witness ==
    /\ referenceRun # Null
    /\ \E k \in 1..Len(referenceRun.regions) :
           /\ RegionUnread(referenceRun.regions[k])
           /\ referenceRun.regions[k].boundingBox.x = 1800
           /\ \E e \in EntriesOfRegion(referenceRun.regions[k]) :
                  referenceRun.referenceColors[e].colorCode = <<"C", "1", "0", "7", "6", "5">>
    /\ \E k \in 1..Len(referenceRun.regions) :
           /\ RegionUnread(referenceRun.regions[k])
           /\ referenceRun.regions[k].boundingBox.x = 0
           /\ \E e \in EntriesOfRegion(referenceRun.regions[k]) :
                  referenceRun.referenceColors[e].colorCode = <<"C", "1", "0", "0", "0">>

\* One uppercase letter followed by at least two digits and nothing else;
\* the letter C followed by digits.
IsLetterAndDigits(code) ==
    /\ Len(code) >= 3
    /\ code[1] \in UpperChars
    /\ \A k \in 2..Len(code) : code[k] \in DigitChars
IsSyntheticForm(code) ==
    /\ Len(code) >= 2
    /\ code[1] = "C"
    /\ \A k \in 2..Len(code) : code[k] \in DigitChars

\* C14 as stated: the code of every entry of the reference extraction is
\* one uppercase letter followed by at least two digits and nothing else,
\* or the letter C followed by digits.
C14_CodeLetterAndDigits ==
    referenceRun # Null =>
        \A k \in 1..Len(referenceRun.referenceColors) :
            \/ IsLetterAndDigits(referenceRun.referenceColors[k].colorCode)
            \/ IsSyntheticForm(referenceRun.referenceColors[k].colorCode)

(***************************************************************************)
(* ReferenceColorExtractor: the percentage-based detection                 *)
(***************************************************************************)
\* An image as the scans read it: rows[y + 1] is row y, white but for the
\* pixels from column `from` up to, not including, column `to`, which have
\* the colour of the row; or a row given in `stretches` as the stretches
\* of one colour each that make it up, from the left, each a pair of a
\* length and a colour.
RECURSIVE colorInStretches(_, _)
colorInStretches(parts, x) ==
    IF x < Head(parts)[1] THEN Head(parts)[2]
    ELSE colorInStretches(Tail(parts), x - Head(parts)[1])
White == RGB(255, 255, 255)
ImageRow(from, to, color) == [from |-> from, to |-> to, color |-> color]
pixelAt(image, x, y) ==
    LET row == image.rows[y + 1]
    IN  IF "stretches" \in DOMAIN row THEN colorInStretches(row.stretches, x)
        ELSE IF x >= row.from /\ x < row.to THEN row.color ELSE White

\* Math.round of a / b, a >= 0 and b > 0
RoundDiv(a, b) == (2 * a + b) \div (2 * b)
\* Math.round(height * ratio), the ratio in thousandths
RoundOfRatio(height, thousandths) == RoundDiv(height * thousandths, 1000)

\* isColorBoxPixel: brightness < 250 && brightness > 20, the brightness
\* being a third of the channel sum.
isColorBoxPixel(color) ==
    LET channelSum == color.r + color.g + color.b
    IN  channelSum < 3 * 250 /\ channelSum > 3 * 20

\* colorRatio > num / den on row y, every step-th column sampled.
colorRatioExceeds(image, y, step, num, den) ==
    LET sampled == {x \in 0..(image.width - 1) : x % step = 0}
        colorPixelCount ==
            Cardinality({x \in sampled : isColorBoxPixel(pixelAt(image, x, y))})
    IN  colorPixelCount * den > num * Cardinality(sampled)

\* findColorBoxRow
RECURSIVE firstColorBoxRow(_, _)
firstColorBoxRow(image, scanPositions) ==
    IF Len(scanPositions) = 0 THEN RoundOfRatio(image.height, 118)
    ELSE IF colorRatioExceeds(image, Head(scanPositions), 5, 3, 10)
         THEN Head(scanPositions)
         ELSE firstColorBoxRow(image, Tail(scanPositions))
findColorBoxRow(image) ==
    firstColorBoxRow(image, <<RoundOfRatio(image.height, 100), RoundOfRatio(image.height, 118),
                              RoundOfRatio(image.height, 150), RoundOfRatio(image.height, 200),
                              RoundOfRatio(image.height, 250), RoundOfRatio(image.height, 300)>>)

\* The two loops of findVerticalBoundaries, from row y on.
RECURSIVE scanUpward(_, _, _)
scanUpward(image, y, boxTop) ==
    IF y < 0 THEN boxTop
    ELSE IF colorRatioExceeds(image, y, 10, 2, 10) THEN scanUpward(image, y - 1, y)
         ELSE boxTop
RECURSIVE scanDownward(_, _, _)
scanDownward(image, y, boxBottom) ==
    IF y >= image.height THEN boxBottom
    ELSE IF colorRatioExceeds(image, y, 10, 2, 10) THEN scanDownward(image, y + 1, y)
         ELSE boxBottom

\* findVerticalBoundaries
findVerticalBoundaries(image, centerY) ==
    [boxTop |-> scanUpward(image, centerY, centerY),
     boxBottom |-> scanDownward(image, centerY, centerY)]

\* The smoothed brightness of column x on the scan row is below 230: the
\* mean over the window of two columns either side, of a third of the
\* channel sums.
isColorPixelSmoothed(image, scanY, x) ==
    LET window == Max(0, x - 2)..Min(image.width - 1, x + 2)
        channelSumAt(i) == LET c == pixelAt(image, i, scanY) IN c.r + c.g + c.b
        RECURSIVE total(_)
        total(i) == IF i > Min(image.width - 1, x + 2) THEN 0
                    ELSE channelSumAt(i) + total(i + 1)
    IN  total(Max(0, x - 2)) < 3 * 230 * Cardinality(window)

\* The third loop of findHorizontalBoundaries from column x on, and what
\* follows it; boundaries is kept as a set, as the Set of the source does.
RECURSIVE boundariesFrom(_, _, _, _, _, _)
boundariesFrom(image, scanY, x, inColorBox, colorBoxStart, boundaries) ==
    IF x >= image.width
    THEN (IF inColorBox /\ image.width - colorBoxStart > 10
          THEN boundaries \cup {colorBoxStart, image.width}
          ELSE boundaries) \cup {image.width}
    ELSE LET isColorPixel == isColorPixelSmoothed(image, scanY, x)
         IN  IF isColorPixel /\ ~inColorBox
             THEN boundariesFrom(image, scanY, x + 1, TRUE, x, boundaries)
             ELSE IF ~isColorPixel /\ inColorBox
             THEN boundariesFrom(image, scanY, x + 1, FALSE, colorBoxStart,
                                 IF x - colorBoxStart > 10
                                 THEN boundaries \cup {colorBoxStart, x}
                                 ELSE boundaries)
             ELSE boundariesFrom(image, scanY, x + 1, inColorBox, colorBoxStart, boundaries)
\* [...new Set(boundaries)].sort((a, b) => a - b)
RECURSIVE sortedSeqOf(_)
sortedSeqOf(numbers) ==
    IF numbers = {} THEN <<>>
    ELSE LET least == CHOOSE n \in numbers : \A m \in numbers : n <= m
         IN  <<least>> \o sortedSeqOf(numbers \ {least})
\* findHorizontalBoundaries
findHorizontalBoundaries(image, scanY) ==
    sortedSeqOf(boundariesFrom(image, scanY, 0, FALSE, 0, {0}))

\* The sum of one channel over the pixels, taken colour by colour: each
\* colour that occurs counts as often as it occurs.
channelOf(color, channel) ==
    IF channel = "r" THEN color.r ELSE IF channel = "g" THEN color.g ELSE color.b
RECURSIVE weightedTotal(_, _, _, _)
weightedTotal(image, pixels, colors, channel) ==
    IF colors = {} THEN 0
    ELSE LET color == CHOOSE c \in colors : TRUE
             occurrences == Cardinality({p \in pixels : pixelAt(image, p[1], p[2]) = color})
         IN  channelOf(color, channel) * occurrences
                 + weightedTotal(image, pixels, colors \ {color}, channel)
channelTotal(image, pixels, channel) ==
    weightedTotal(image, pixels, {pixelAt(image, p[1], p[2]) : p \in pixels}, channel)
\* calculateAverageColor of the colours of a non-empty set of pixels
calculateAverageColor(image, pixels) ==
    RGB(RoundDiv(channelTotal(image, pixels, "r"), Cardinality(pixels)),
        RoundDiv(channelTotal(image, pixels, "g"), Cardinality(pixels)),
        RoundDiv(channelTotal(image, pixels, "b"), Cardinality(pixels)))

\* extractAverageColorFromRegion
extractAverageColorFromRegion(image, startX, endX, startY, endY) ==
    LET colorSamples ==
            {p \in (startX..(endX - 1)) \X (startY..(endY - 1)) :
                /\ (p[1] - startX) % 2 = 0
                /\ (p[2] - startY) % 2 = 0
                /\ isColorBoxPixel(pixelAt(image, p[1], p[2]))}
    IN  IF colorSamples = {} THEN RGB(128, 128, 128)
        ELSE calculateAverageColor(image, colorSamples)

\* Step 4 of detectColorBoxBoundaries from boundary i on (i counts from 1).
RECURSIVE colorBoxesFrom(_, _, _, _)
colorBoxesFrom(image, horizontalBoundaries, vertical, i) ==
    IF i >= Len(horizontalBoundaries) THEN <<>>
    ELSE LET boxStartX == horizontalBoundaries[i]
             boxEndX == horizontalBoundaries[i + 1]
             boxWidth == boxEndX - boxStartX
             rest == colorBoxesFrom(image, horizontalBoundaries, vertical, i + 1)
         IN  IF boxWidth < 8 THEN rest
             ELSE <<[x        |-> boxStartX,
                     y        |-> vertical.boxTop,
                     width    |-> boxWidth,
                     height   |-> vertical.boxBottom - vertical.boxTop,
                     avgColor |-> extractAverageColorFromRegion(
                                      image, boxStartX, boxEndX,
                                      vertical.boxTop, vertical.boxBottom)]>> \o rest

\* detectColorBoxBoundaries
detectColorBoxBoundaries(image) ==
    LET colorBoxY == findColorBoxRow(image)
        vertical == findVerticalBoundaries(image, colorBoxY)
        horizontalBoundaries == findHorizontalBoundaries(image, colorBoxY)
    IN  colorBoxesFrom(image, horizontalBoundaries, vertical, 1)

\* The pages the detection is run on: 24 columns by 10 rows, white but for
\* one band of rows top..bottom holding a bar of one colour.
Grey == RGB(128, 128, 128)
NearBlack == RGB(10, 10, 10)
Pale == RGB(245, 245, 245)
BandImage(top, bottom, from, to, color) ==
    [width  |-> 24,
     height |-> 10,
     rows   |-> [y \in 1..10 |->
                    IF y - 1 >= top /\ y - 1 <= bottom
                    THEN ImageRow(from, to, color)
                    ELSE ImageRow(0, 0, White)]]
BlankImage == BandImage(1, 0, 0, 0, White)
SampleImages ==
    {BlankImage} \cup
    {BandImage(top, bottom, bar[1], bar[2], color) :
        top \in 0..5, bottom \in 0..5,
        bar \in {<<0, 24>>, <<2, 14>>, <<0, 5>>, <<12, 24>>},
        color \in {Grey, NearBlack, Pale}}

InitBoxScan ==
    /\ boxScan \in {[pc                   |-> "row",
                     image                |-> image,
                     colorBoxY            |-> Null,
                     vertical             |-> Null,
                     horizontalBoundaries |-> Null,
                     colorBoxes           |-> Null] : image \in SampleImages}
    /\ swatchRun = Null
    /\ referenceRun = Null
    /\ colorSample = Null
    /\ pixel = Null
    /\ rowScan = Null
    /\ lineScan = Null
    /\ anchorScan = Null
InitDetection == CoreIdle /\ InitBoxScan

\* detectColorBoxBoundaries, step 1
FindColorBoxRow ==
    /\ boxScan # Null
    /\ boxScan.pc = "row"
    /\ boxScan' = [boxScan EXCEPT !.pc = "vertical",
                                  !.colorBoxY = findColorBoxRow(boxScan.image)]
    /\ UNCHANGED coreVars
    /\ UNCHANGED <<swatchRun, referenceRun, colorSample, pixel, rowScan, lineScan, anchorScan>>

\* detectColorBoxBoundaries, step 2
FindVerticalBoundaries ==
    /\ boxScan # Null
    /\ boxScan.pc = "vertical"
    /\ boxScan' = [boxScan EXCEPT !.pc = "horizontal",
                                  !.vertical = findVerticalBoundaries(boxScan.image,
                                                                      boxScan.colorBoxY)]
    /\ UNCHANGED coreVars
    /\ UNCHANGED <<swatchRun, referenceRun, colorSample, pixel, rowScan, lineScan, anchorScan>>

\* detectColorBoxBoundaries, step 3
FindHorizontalBoundaries ==
    /\ boxScan # Null
    /\ boxScan.pc = "horizontal"
    /\ boxScan' = [boxScan EXCEPT !.pc = "boxes",
                                  !.horizontalBoundaries =
                                      findHorizontalBoundaries(boxScan.image,
                                                               boxScan.colorBoxY)]
    /\ UNCHANGED coreVars
    /\ UNCHANGED <<swatchRun, referenceRun, colorSample, pixel, rowScan, lineScan, anchorScan>>

\* detectColorBoxBoundaries, step 4 and the return
CreateBoxRegions ==
    /\ boxScan # Null
    /\ boxScan.pc = "boxes"
    /\ boxScan' = [boxScan EXCEPT !.pc = "done",
                                  !.colorBoxes =
                                      colorBoxesFrom(boxScan.image,
                                                     boxScan.horizontalBoundaries,
                                                     boxScan.vertical, 1)]
    /\ UNCHANGED coreVars
    /\ UNCHANGED <<swatchRun, referenceRun, colorSample, pixel, rowScan, lineScan, anchorScan>>

NextDetection ==
    \/ FindColorBoxRow
    \/ FindVerticalBoundaries
    \/ FindHorizontalBoundaries
    \/ CreateBoxRegions

SpecDetection == InitDetection /\ [][NextDetection]_vars

BoxScanDone == boxScan # Null /\ boxScan.pc = "done"

\* C15: every bounding box a detector produces has a width and a height
\* above zero; here the boxes detectColorBoxBoundaries returns for a page
\* without anchors.
C15_BoxesHavePositiveExtent ==
    BoxScanDone =>
        \A i \in 1..Len(boxScan.colorBoxes) :
            /\ boxScan.colorBoxes[i].width > 0
            /\ boxScan.colorBoxes[i].height > 0

(***************************************************************************)
(* The colour of a region: SwatchExtractor.extractDominantColor and        *)
(* ReferenceColorExtractor.sampleColorBoxRegion                            *)
(***************************************************************************)
\* SwatchExtractor.isWhiteOrNearWhite
swatchIsWhiteOrNearWhite(color) ==
    color.r > 240 /\ color.g > 240 /\ color.b > 240

\* ReferenceColorExtractor.isWhiteOrNearWhite: brightness > 240, the
\* brightness being a third of the channel sum.
referenceIsWhiteOrNearWhite(color) ==
    color.r + color.g + color.b > 3 * 240

\* pixelIndex + 2 < rawBuffer.length, for a buffer of three channels
inBuffer(image, x, y) ==
    (y * image.width + x) * 3 + 2 < image.width * image.height * 3

\* extractDominantColor
extractDominantColor(image, colorBoxBounds, verticalBounds) ==
    LET counted ==
            {p \in (colorBoxBounds.startX..(colorBoxBounds.endX - 1))
                       \X (verticalBounds.startY..verticalBounds.endY) :
                ~swatchIsWhiteOrNearWhite(pixelAt(image, p[1], p[2]))}
        pixelCount == Cardinality(counted)
        avgR == RoundDiv(channelTotal(image, counted, "r"), pixelCount)
        avgG == RoundDiv(channelTotal(image, counted, "g"), pixelCount)
        avgB == RoundDiv(channelTotal(image, counted, "b"), pixelCount)
        bottomRightX == Min(colorBoxBounds.endX - 1, image.width - 1)
        bottomRightY == Min(verticalBounds.endY, image.height - 1)
    IN  IF pixelCount = 0 THEN Null
        ELSE [rgb              |-> RGB(avgR, avgG, avgB),
              hex              |-> dominantColorHex(avgR, avgG, avgB),
              boundingBox      |-> Box(colorBoxBounds.startX, verticalBounds.startY,
                                       colorBoxBounds.endX - colorBoxBounds.startX,
                                       verticalBounds.endY - verticalBounds.startY + 1),
              bottomRightPixel |-> pixelAt(image, bottomRightX, bottomRightY)]

\* sampleColorBoxRegion
sampleColorBoxRegion(image, startX, endX, startY, endY) ==
    LET stepX == Max(1, (endX - startX) \div 10)
        stepY == Max(1, (endY - startY) \div 5)
        colorSamples ==
            {p \in (startX..(endX - 1)) \X (startY..(endY - 1)) :
                /\ (p[1] - startX) % stepX = 0
                /\ (p[2] - startY) % stepY = 0
                /\ inBuffer(image, p[1], p[2])
                /\ ~referenceIsWhiteOrNearWhite(pixelAt(image, p[1], p[2]))}
        centerY == RoundDiv(startY + endY, 2)
        centerX == RoundDiv(startX + endX, 2)
        centerIndex == centerY * image.width + centerX
    IN  IF colorSamples = {}
        THEN IF inBuffer(image, centerX, centerY)
             THEN pixelAt(image, centerIndex % image.width, centerIndex \div image.width)
             ELSE RGB(128, 128, 128)
        ELSE calculateAverageColor(image, colorSamples)

\* The regions sampled: 16 columns by 8 rows, the rows above `split` filled
\* with one colour, those below holding a bar of another.
Azure == RGB(171, 205, 239)
Leaf == RGB(10, 128, 5)
Cream == RGB(255, 255, 211)
RegionImage(split, upper, lower, to) ==
    [width  |-> 16,
     height |-> 8,
     rows   |-> [y \in 1..8 |-> IF y <= split THEN ImageRow(0, 16, upper)
                                ELSE ImageRow(0, to, lower)]]
SampleRegionImages ==
    {RegionImage(split, upper, lower, to) :
        split \in {0, 4, 8}, upper \in {White, Azure, Leaf, Cream},
        lower \in {White, Azure, Leaf, Cream}, to \in {8, 16}}

InitColorSample ==
    /\ colorSample \in {[image          |-> image,
                         colorBox       |-> Null,
                         referenceColor |-> Null,
                         given          |-> Null,
                         averageColor   |-> Null,
                         done           |-> {}] : image \in SampleRegionImages}
    /\ swatchRun = Null
    /\ referenceRun = Null
    /\ boxScan = Null
    /\ pixel = Null
    /\ rowScan = Null
    /\ lineScan = Null
    /\ anchorScan = Null
InitSampling == CoreIdle /\ InitColorSample

\* The swatch extractor takes the region for a colour box of a swatch.
ExtractDominantColor ==
    /\ colorSample # Null
    /\ "swatch" \notin colorSample.done
    /\ colorSample' =
           [colorSample EXCEPT
               !.colorBox = extractDominantColor(
                                colorSample.image,
                                [startX |-> 0, endX |-> colorSample.image.width],
                                [startY |-> 0, endY |-> colorSample.image.height - 1]),
               !.done = @ \cup {"swatch"}]
    /\ UNCHANGED coreVars
    /\ UNCHANGED <<swatchRun, referenceRun, boxScan, pixel, rowScan, lineScan, anchorScan>>

\* The reference extractor takes the region for a colour box beside an
\* anchor box: findColorBoxesInRow samples it, extractColorInfoEnhanced
\* makes the entry from what the recognition calls return (given).
ExtractReferenceColor(given) ==
    /\ colorSample # Null
    /\ "reference" \notin colorSample.done
    /\ LET image == colorSample.image
           avgColor == sampleColorBoxRegion(image, 0, image.width, 0, image.height)
           textBoundingBox == Box(0, 0, image.width, image.height)
       IN  colorSample' =
               [colorSample EXCEPT
                   !.referenceColor = extractColorInfoEnhanced(textBoundingBox, avgColor, given),
                   !.given = given,
                   !.done = @ \cup {"reference"}]
    /\ UNCHANGED coreVars
    /\ UNCHANGED <<swatchRun, referenceRun, boxScan, pixel, rowScan, lineScan, anchorScan>>

\* The percentage-based detection takes the region for a colour box.
ExtractAverageColor ==
    /\ colorSample # Null
    /\ "percentage" \notin colorSample.done
    /\ LET image == colorSample.image
       IN  colorSample' =
               [colorSample EXCEPT
                   !.averageColor = extractAverageColorFromRegion(
                                        image, 0, image.width, 0, image.height),
                   !.done = @ \cup {"percentage"}]
    /\ UNCHANGED coreVars
    /\ UNCHANGED <<swatchRun, referenceRun, boxScan, pixel, rowScan, lineScan, anchorScan>>

NextSampling ==
    \/ ExtractDominantColor
    \/ \E given \in ReferenceRegionInputs : ExtractReferenceColor(given)
    \/ ExtractAverageColor

SpecSampling == InitSampling /\ [][NextSampling]_vars

\* "#" and the six upper-case hexadecimal digits of the three channels
UpperHexDigits == DecDigits \o <<"A", "B", "C", "D", "E", "F">>
CanonicalHex(rgb) ==
    <<"#", UpperHexDigits[(rgb.r \div 16) + 1], UpperHexDigits[(rgb.r % 16) + 1],
           UpperHexDigits[(rgb.g \div 16) + 1], UpperHexDigits[(rgb.g % 16) + 1],
           UpperHexDigits[(rgb.b \div 16) + 1], UpperHexDigits[(rgb.b % 16) + 1]>>

\* C16: the hex of every swatch colour box and of every reference entry is
\* the canonical upper-case six-digit encoding of the rgb of that record.
C16_HexCanonicalUpperCase ==
    colorSample # Null =>
        /\ colorSample.colorBox # Null =>
               colorSample.colorBox.hex = CanonicalHex(colorSample.colorBox.rgb)
        /\ colorSample.referenceColor # Null =>
               colorSample.referenceColor.hex = CanonicalHex(colorSample.referenceColor.rgb)

(***************************************************************************)
(* The two isWhiteOrNearWhite                                              *)
(***************************************************************************)
\* Channel values either side of the threshold of 240, and the extremes.
SampleChannels == {0, 211, 240, 241, 255}

InitPixel ==
    /\ pixel \in {[color     |-> RGB(r, g, b),
                   swatch    |-> Null,
                   reference |-> Null] :
                      r \in SampleChannels, g \in SampleChannels, b \in SampleChannels}
    /\ swatchRun = Null
    /\ referenceRun = Null
    /\ boxScan = Null
    /\ colorSample = Null
    /\ rowScan = Null
    /\ lineScan = Null
    /\ anchorScan = Null
InitBackground == CoreIdle /\ InitPixel

\* A scan of the swatch extractor asks whether the pixel is background.
SwatchIsWhiteOrNearWhite ==
    /\ pixel # Null
    /\ pixel.swatch = Null
    /\ pixel' = [pixel EXCEPT !.swatch = Some(swatchIsWhiteOrNearWhite(pixel.color))]
    /\ UNCHANGED coreVars
    /\ UNCHANGED <<swatchRun, referenceRun, boxScan, colorSample, rowScan, lineScan, anchorScan>>

\* A scan of the reference extractor asks the same of the pixel.
ReferenceIsWhiteOrNearWhite ==
    /\ pixel # Null
    /\ pixel.reference = Null
    /\ pixel' = [pixel EXCEPT !.reference = Some(referenceIsWhiteOrNearWhite(pixel.color))]
    /\ UNCHANGED coreVars
    /\ UNCHANGED <<swatchRun, referenceRun, boxScan, colorSample, rowScan, lineScan, anchorScan>>

NextBackground ==
    \/ SwatchIsWhiteOrNearWhite
    \/ ReferenceIsWhiteOrNearWhite

SpecBackground == InitBackground /\ [][NextBackground]_vars

AllChannelsAbove(color, threshold) ==
    color.r > threshold /\ color.g > threshold /\ color.b > threshold

\* C17: each of the two isWhiteOrNearWhite says "background" exactly of the
\* pixels whose three channels all exceed 240, so the two agree on every
\* pixel.
C17_BackgroundIffAllChannelsAbove ==
    pixel # Null =>
        /\ pixel.swatch # Null =>
               (pixel.swatch.some <=> AllChannelsAbove(pixel.color, 240))
        /\ pixel.reference # Null =>
               (pixel.reference.some <=> AllChannelsAbove(pixel.color, 240))
        /\ pixel.swatch # Null /\ pixel.reference # Null =>
               pixel.swatch.some = pixel.reference.some

(***************************************************************************)
(* SwatchExtractor.detectRows                                              *)
(***************************************************************************)
\* The column of the image at scanX = 100 as the scan reads it: white but
\* for the bands, each the rows from..to in one colour.
Band(from, to, color) == [from |-> from, to |-> to, color |-> color]
columnPixel(column, y) ==
    IF \E k \in 1..Len(column.bands) : y >= column.bands[k].from /\ y <= column.bands[k].to
    THEN LET k == CHOOSE j \in 1..Len(column.bands) :
                      y >= column.bands[j].from /\ y <= column.bands[j].to
         IN  column.bands[k].color
    ELSE White

\* Variant: a back-off margin of 60 rows, above the closing gap of 50.
findRowStartBackingOff60(column, startY) ==
    LET nonWhite == {y \in startY..(column.height - 11) :
                        ~swatchIsWhiteOrNearWhite(columnPixel(column, y))}
    IN  IF nonWhite = {} THEN Null
        ELSE LET y == CHOOSE first \in nonWhite : \A other \in nonWhite : first <= other
             IN  Some(Max(0, y - 60))
\* findRowStart: the loop returns at the first row y of startY..height - 11
\* that is not white, with Math.max(0, y - 45), and null past the last one.
findRowStart(column, startY) ==
    LET nonWhite == {y \in startY..(column.height - 11) :
                        ~swatchIsWhiteOrNearWhite(columnPixel(column, y))}
    IN  IF nonWhite = {} THEN Null
        ELSE LET y == CHOOSE first \in nonWhite : \A other \in nonWhite : first <= other
             IN  Some(Max(0, y - 45))

\* Variant: the row ends where the closing gap ends.
findRowEndAtGapEnd(column, rowStart, whiteSpaceThreshold) ==
    LET nonWhite == {w \in rowStart..(column.height - 11) :
                        ~swatchIsWhiteOrNearWhite(columnPixel(column, w))}
        reached == {y \in (rowStart + whiteSpaceThreshold - 1)..(column.height - 11) :
                       \A w \in nonWhite : w < y - whiteSpaceThreshold + 1 \/ w > y}
    IN  IF reached = {} THEN Null
        ELSE LET y == CHOOSE first \in reached : \A other \in reached : first <= other
             IN  Some(Max(y, rowStart + 1))
\* findRowEnd: consecutiveWhitePixels reaches the threshold at the first row
\* y of rowStart..height - 11 that ends a run of that many white rows begun
\* at or after rowStart; the loop returns there, and null past the last row.
findRowEnd(column, rowStart, whiteSpaceThreshold) ==
    LET nonWhite == {w \in rowStart..(column.height - 11) :
                        ~swatchIsWhiteOrNearWhite(columnPixel(column, w))}
        reached == {y \in (rowStart + whiteSpaceThreshold - 1)..(column.height - 11) :
                       \A w \in nonWhite : w < y - whiteSpaceThreshold + 1 \/ w > y}
    IN  IF reached = {} THEN Null
        ELSE LET y == CHOOSE first \in reached : \A other \in reached : first <= other
             IN  Some(Max(y - whiteSpaceThreshold, rowStart + 1))

\* findSwatchStartingPosition below an anchor area that ends at row anchorEnd
\* (Null: no anchor box)
findSwatchStartingPosition(anchorEnd, height) ==
    IF anchorEnd = Null THEN 0
    ELSE Min(anchorEnd.some + 200, height - 100)

\* The columns scanned: a first band of rows y0..y1 and, for some, a second
\* band of five rows after a gap; the anchor area, where there is one, ends
\* at row 10.
ScanColumn(height, anchorEnd, y0, len, gap) ==
    [height |-> height,
     startY |-> findSwatchStartingPosition(anchorEnd, height),
     bands  |-> IF gap = 0 \/ y0 + len + gap + 5 > height
                THEN <<Band(y0, y0 + len - 1, Grey)>>
                ELSE <<Band(y0, y0 + len - 1, Grey),
                       Band(y0 + len + gap, y0 + len + gap + 4, Leaf)>>]
SampleColumns ==
    {ScanColumn(height, anchorEnd, y0, len, gap) :
        height \in {240, 320}, anchorEnd \in {Null, Some(10)},
        y0 \in {0, 30, 150, 215, 232}, len \in {1, 10, 30, 40}, gap \in {0, 49, 50, 80}}

InitRowScan ==
    /\ rowScan \in {[pc       |-> "start",
                     column   |-> column,
                     currentY |-> column.startY,
                     rowStart |-> Null,
                     rows     |-> <<>>] : column \in SampleColumns}
    /\ swatchRun = Null
    /\ referenceRun = Null
    /\ boxScan = Null
    /\ colorSample = Null
    /\ pixel = Null
    /\ lineScan = Null
    /\ anchorScan = Null
InitRows == CoreIdle /\ InitRowScan

\* One turn of the loop of detectRows up to the first break.
FindRowStart ==
    /\ rowScan # Null
    /\ rowScan.pc = "start"
    /\ rowScan.currentY < rowScan.column.height - 100
    /\ LET rowStart == findRowStart(rowScan.column, rowScan.currentY)
       IN  rowScan' = [rowScan EXCEPT !.pc = IF rowStart = Null THEN "done" ELSE "end",
                                      !.rowStart = rowStart]
    /\ UNCHANGED coreVars
    /\ UNCHANGED <<swatchRun, referenceRun, boxScan, colorSample, pixel, lineScan, anchorScan>>

\* The rest of the turn: the second break, or the row is pushed.
FindRowEnd ==
    /\ rowScan # Null
    /\ rowScan.pc = "end"
    /\ LET rowStart == rowScan.rowStart.some
           rowEnd == findRowEnd(rowScan.column, rowStart, 50)
       IN  rowScan' = IF rowEnd = Null
                      THEN [rowScan EXCEPT !.pc = "done"]
                      ELSE [rowScan EXCEPT
                               !.pc = "start",
                               !.rows = Append(@, [startY |-> rowStart,
                                                   endY   |-> rowEnd.some,
                                                   height |-> rowEnd.some - rowStart]),
                               !.currentY = rowEnd.some + 1]
    /\ UNCHANGED coreVars
    /\ UNCHANGED <<swatchRun, referenceRun, boxScan, colorSample, pixel, lineScan, anchorScan>>

\* The loop condition fails: detectRows returns rows.
ReturnRows ==
    /\ rowScan # Null
    /\ rowScan.pc = "start"
    /\ ~(rowScan.currentY < rowScan.column.height - 100)
    /\ rowScan' = [rowScan EXCEPT !.pc = "done"]
    /\ UNCHANGED coreVars
    /\ UNCHANGED <<swatchRun, referenceRun, boxScan, colorSample, pixel, lineScan, anchorScan>>

NextRows ==
    \/ FindRowStart
    \/ FindRowEnd
    \/ ReturnRows

SpecRows == InitRows /\ [][NextRows]_vars

RowScanDone == rowScan # Null /\ rowScan.pc = "done"

\* The column is background from the scan start down to the first band,
\* and for at least gapRows rows after it.
FirstBandThenGap(column, gapRows) ==
    LET y0 == column.bands[1].from
        y1 == column.bands[1].to
    IN  /\ column.startY <= y0
        /\ y1 + gapRows <= column.height - 1
        /\ \A y \in (y1 + 1)..(y1 + gapRows) :
               swatchIsWhiteOrNearWhite(columnPixel(column, y))
RowContainsFirstBand(column, rows) ==
    \E i \in 1..Len(rows) :
        /\ rows[i].startY <= column.bands[1].from
        /\ rows[i].endY >= column.bands[1].to

\* C18: for a scan column that is background from the scan start to y0 - 1,
\* not background from y0 to y1 and background for at least 50 rows after,
\* detectRows reports a row with startY <= y0 that contains [y0, y1].
C18_RowSegmentation ==
    RowScanDone /\ FirstBandThenGap(rowScan.column, 50) =>
        RowContainsFirstBand(rowScan.column, rowScan.rows)

(***************************************************************************)
(* The page runs of both extractors, for what they do with a recognition   *)
(* call that fails.                                                        *)
(***************************************************************************)
InitRegions == InitSwatchPage \/ InitReferencePage
NextRegions == NextSwatchPage \/ NextReferencePage
SpecRegions == InitRegions /\ [][NextRegions]_vars

\* A recognition call of the region threw or was rejected.
SwatchRecognitionFailed(region) == region.given.recognition = Rejected
ReferenceRecognitionFailed(region) ==
    /\ ~region.given.regionThrows
    /\ \E k \in 1..Len(region.given.recognitions) : region.given.recognitions[k] = Rejected
\* The region as it would be had the recognition calls ended, without a
\* failure, before the one that failed.
WithoutFailedCall(region) ==
    ReferenceInput(FALSE, [k \in 1..Len(VariantTexts(region)) |->
                              Recognized(VariantTexts(region)[k])])

\* Every region the scans found was handed to the extraction.
EverySwatchRegionProcessed ==
    /\ Len(swatchRun.found) = Len(swatchRun.rows)
    /\ Len(swatchRun.regions) = SumOf(swatchRun.found)
EveryReferenceRegionProcessed ==
    /\ Len(referenceRun.found) = Max(1, Len(referenceRun.redAnchorBoxes))
    /\ Len(referenceRun.regions) = SumOf(referenceRun.found)
    /\ referenceRun.returned # Null
    /\ referenceRun.returned.referenceColors = referenceRun.referenceColors

ValidVariants(given) ==
    LET ocrAttempts == performMultipleOCRAttempts(given.recognitions)
        validLines ==
            {lines \in {ocrAttempts[k].lines : k \in 1..Len(ocrAttempts)} :
                LET colorInfo == parseColorBoxTextEnhanced(lines)
                IN  colorInfo # Null /\ isValidColorCode(colorInfo.colorCode)}
    IN  {k \in 1..Len(ocrAttempts) : ocrAttempts[k].lines \in validLines}
\* The code the loose patterns find in the joined variants.
LooseCodeOf(given) ==
    LET ocrAttempts == performMultipleOCRAttempts(given.recognitions)
    IN  looseColorCodeOf(joinSpace([k \in 1..Len(ocrAttempts) |-> ocrAttempts[k].text]))
TextOf(entry) ==
    [colorCode    |-> entry.colorCode,
     colorName    |-> entry.colorName,
     pantoneColor |-> entry.pantoneColor]
ReferenceColorMade ==
    /\ colorSample # Null
    /\ "reference" \in colorSample.done
    /\ colorSample.referenceColor # Null

\* C20: the entry of a region takes its text from the variant of lowest
\* index whose parse is valid, never from a later one; from the loose
\* pattern over the joined variants only when no variant is valid; and from
\* the synthetic fallback only when the loose pattern finds nothing either.
C20_VariantPrecedence ==
    ReferenceColorMade =>
        LET given == colorSample.given
            entry == colorSample.referenceColor
            ocrAttempts == performMultipleOCRAttempts(given.recognitions)
            valid == ValidVariants(given)
            loose == LooseCodeOf(given)
            fallback == finalFallback(entry.boundingBox, entry.rgb)
        IN  /\ valid # {} =>
                   LET first == CHOOSE v \in valid : \A w \in valid : v <= w
                   IN  TextOf(entry) = parseColorBoxTextEnhanced(ocrAttempts[first].lines)
            /\ valid = {} /\ loose # Null =>
                   entry.colorCode = removeNonWord(loose.some)
            /\ valid = {} /\ loose = Null => entry = fallback
            /\ entry = fallback => valid = {} /\ loose = Null

\* A region whose first variant is empty, whose second reads E2011 and whose
\* later ones read B60002 has an entry with the code of the second.
C20_Witness ==
    /\ ReferenceColorMade
    /\ ValidVariants(colorSample.given) = 2..VariantCount
    /\ colorSample.given.recognitions[3] = Recognized(TextFullRead)
    /\ colorSample.referenceColor.colorCode = <<"E", "2", "0", "1", "1">>

(***************************************************************************)
(* The synthetic fallback code and the validator's code test               *)
(***************************************************************************)
\* /^C\d{4}$/ spelt out: the letter C followed by exactly four digits.
IsCAndFourDigits(code) ==
    /\ Len(code) = 5
    /\ code[1] = "C"
    /\ \A k \in 2..5 : code[k] \in DigitChars

\* C21 as stated: the code of every entry made by the final fallback is a
\* function of the region's x position and sampled colour alone, and is the
\* letter C followed by exactly four digits, the form the validator's
\* OCR-failure code test recognises.
C21_FallbackCodeFourDigits ==
    referenceRun # Null =>
        \A k \in 1..Len(referenceRun.regions) :
            LET region == referenceRun.regions[k]
            IN  RegionUnread(region) =>
                    \A e \in EntriesOfRegion(region) :
                        LET code == referenceRun.referenceColors[e].colorCode
                        IN  /\ code = generateFallbackColorCode(region.boundingBox.x,
                                                                region.avgColor)
                            /\ IsCAndFourDigits(code)
                            /\ matchesFallbackCode(code)

(***************************************************************************)
(* Horizontal boundary scans: colour boxes of a swatch, colour boxes of a  *)
(* reference row                                                           *)
(***************************************************************************)
\* A scan line made of stretches of one colour each, and the image whose
\* rows all are that line.
RECURSIVE LengthOfStretches(_)
LengthOfStretches(parts) ==
    IF parts = <<>> THEN 0 ELSE Head(parts)[1] + LengthOfStretches(Tail(parts))
LineImage(line, height) ==
    [width  |-> LengthOfStretches(line),
     height |-> height,
     rows   |-> [y \in 1..height |-> [stretches |-> line]]]
AnchorRed == RGB(220, 30, 30)
\* Two runs of a colour, `lead` background samples before the first, `gap`
\* between them and `trail` after the second.
TwoRuns(lead, first, gap, second, trail, color) ==
    << <<lead, White>>, <<first, color>>, <<gap, White>>,
       <<second, color>>, <<trail, White>> >>
\* Scan lines of the colour area of a swatch: runs of 14, 15 and 16 samples
\* closed by gaps of 1 to 3 samples or by the end of the line.
SwatchScanLines ==
    {TwoRuns(lead, first, gap, second, trail, color) :
        lead \in {0, 2}, first \in {14, 15, 16}, gap \in {1, 2, 3},
        second \in {0, 14, 15, 16}, trail \in {0, 1, 2, 3}, color \in {Leaf, Cream}}
\* Scan lines of a reference row: the anchor box in the first five columns,
\* five background samples, then runs of 8, 9 and 10 samples closed by
\* gaps of 1, 7 or 8 samples or by the end of the line.
ReferenceScanLines ==
    {<< <<5, AnchorRed>>, <<5, White>> >>
         \o TwoRuns(lead, first, gap, second, trail, color) :
        lead \in {0, 2}, first \in {8, 9, 10}, gap \in {1, 7, 8},
        second \in {0, 8, 9, 10}, trail \in {0, 3, 7, 8}, color \in {Leaf, Cream}}
ScanImageHeight == 8

\* findColorBoxBoundaries is entered with the colour area of a swatch, or
\* findColorBoxesInRow with the page and an anchor box.
InitLineScan ==
    /\ lineScan \in
           {[method                 |-> "findColorBoxBoundaries",
             pc                     |-> "scan",
             image                  |-> LineImage(line, ScanImageHeight),
             scanY                  |-> (ScanImageHeight * 5) \div 10,
             currentX               |-> 0,
             inColorBox             |-> FALSE,
             colorBoxStartX         |-> 0,
             consecutiveWhitePixels |-> 0,
             colorBoxes             |-> <<>>] : line \in SwatchScanLines}
           \cup
           {[method                 |-> "findColorBoxesInRow",
             pc                     |-> "scan",
             image                  |-> LineImage(line, ScanImageHeight),
             redBox                 |-> Box(0, 0, 5, ScanImageHeight),
             scanY                  |-> RoundDiv(2 * 0 + ScanImageHeight, 2),
             x                      |-> 0 + 5 + 5,
             inColorBox             |-> FALSE,
             colorBoxStart          |-> 0,
             consecutiveWhitePixels |-> 0,
             colorBoxes             |-> <<>>] : line \in ReferenceScanLines}
    /\ swatchRun = Null
    /\ referenceRun = Null
    /\ boxScan = Null
    /\ colorSample = Null
    /\ pixel = Null
    /\ rowScan = Null
    /\ anchorScan = Null
InitBoundaries == CoreIdle /\ InitLineScan

\* One turn of the while loop of findColorBoxBoundaries.
FindColorBoxBoundariesStep ==
    /\ lineScan # Null
    /\ lineScan.method = "findColorBoxBoundaries"
    /\ lineScan.pc = "scan"
    /\ lineScan.currentX < lineScan.image.width
    /\ LET minColorBoxWidth == 15
           whiteGap == 3
           currentX == lineScan.currentX
           isWhite == swatchIsWhiteOrNearWhite(
                          pixelAt(lineScan.image, currentX, lineScan.scanY))
           inColorBox == lineScan.inColorBox
           counted == lineScan.consecutiveWhitePixels + 1
           colorBoxWidth == currentX - lineScan.colorBoxStartX - counted
       IN  lineScan' =
               IF ~inColorBox /\ ~isWhite
               THEN [lineScan EXCEPT !.inColorBox = TRUE,
                                     !.colorBoxStartX = currentX,
                                     !.consecutiveWhitePixels = 0,
                                     !.currentX = @ + 1]
               ELSE IF inColorBox /\ isWhite
               THEN IF counted >= whiteGap
                    THEN [lineScan EXCEPT
                             !.colorBoxes =
                                 IF colorBoxWidth >= minColorBoxWidth
                                 THEN Append(@, [startX |-> lineScan.colorBoxStartX,
                                                 endX   |-> lineScan.colorBoxStartX
                                                                + colorBoxWidth])
                                 ELSE @,
                             !.inColorBox = FALSE,
                             !.consecutiveWhitePixels = 0,
                             !.currentX = @ + 1]
                    ELSE [lineScan EXCEPT !.consecutiveWhitePixels = counted,
                                          !.currentX = @ + 1]
               ELSE IF inColorBox /\ ~isWhite
               THEN [lineScan EXCEPT !.consecutiveWhitePixels = 0,
                                     !.currentX = @ + 1]
               ELSE [lineScan EXCEPT !.currentX = @ + 1]
    /\ UNCHANGED coreVars
    /\ UNCHANGED <<swatchRun, referenceRun, boxScan, colorSample, pixel, rowScan, anchorScan>>

\* The end of the line is reached: the last colour box, and the return.
FindColorBoxBoundariesEnd ==
    /\ lineScan # Null
    /\ lineScan.method = "findColorBoxBoundaries"
    /\ lineScan.pc = "scan"
    /\ lineScan.currentX >= lineScan.image.width
    /\ LET minColorBoxWidth == 15
           colorBoxWidth == lineScan.currentX - lineScan.colorBoxStartX
       IN  lineScan' =
               [lineScan EXCEPT
                   !.pc = "done",
                   !.colorBoxes =
                       IF lineScan.inColorBox /\ colorBoxWidth >= minColorBoxWidth
                       THEN Append(@, [startX |-> lineScan.colorBoxStartX,
                                       endX   |-> lineScan.colorBoxStartX + colorBoxWidth])
                       ELSE @]
    /\ UNCHANGED coreVars
    /\ UNCHANGED <<swatchRun, referenceRun, boxScan, colorSample, pixel, rowScan, anchorScan>>

\* One turn of the for loop of findColorBoxesInRow.
FindColorBoxesInRowStep ==
    /\ lineScan # Null
    /\ lineScan.method = "findColorBoxesInRow"
    /\ lineScan.pc = "scan"
    /\ lineScan.x < lineScan.image.width
    /\ LET minimumWhiteGap == 8
           x == lineScan.x
           image == lineScan.image
           boxTop == lineScan.redBox.y
           boxBottom == lineScan.redBox.y + lineScan.redBox.height
           isWhite == referenceIsWhiteOrNearWhite(pixelAt(image, x, lineScan.scanY))
           counted == IF isWhite THEN lineScan.consecutiveWhitePixels + 1 ELSE 0
           colorBoxWidth == (x - minimumWhiteGap + 1) - lineScan.colorBoxStart
       IN  lineScan' =
               IF ~inBuffer(image, x, lineScan.scanY)
               THEN [lineScan EXCEPT !.x = @ + 1]
               ELSE IF ~isWhite /\ ~lineScan.inColorBox
               THEN [lineScan EXCEPT !.inColorBox = TRUE,
                                     !.colorBoxStart = x,
                                     !.consecutiveWhitePixels = 0,
                                     !.x = @ + 1]
               ELSE IF counted >= minimumWhiteGap /\ lineScan.inColorBox
               THEN [lineScan EXCEPT
                        !.colorBoxes =
                            IF colorBoxWidth > 8
                            THEN Append(@,
                                     [x        |-> lineScan.colorBoxStart,
                                      y        |-> boxTop,
                                      width    |-> colorBoxWidth,
                                      height   |-> lineScan.redBox.height,
                                      avgColor |-> sampleColorBoxRegion(
                                                       image, lineScan.colorBoxStart,
                                                       x - minimumWhiteGap + 1,
                                                       boxTop, boxBottom)])
                            ELSE @,
                        !.inColorBox = FALSE,
                        !.consecutiveWhitePixels = 0,
                        !.x = @ + 1]
               ELSE [lineScan EXCEPT !.consecutiveWhitePixels = counted,
                                     !.x = @ + 1]
    /\ UNCHANGED coreVars
    /\ UNCHANGED <<swatchRun, referenceRun, boxScan, colorSample, pixel, rowScan, anchorScan>>

\* The right edge is reached: the box that extends to it, and the return.
FindColorBoxesInRowEnd ==
    /\ lineScan # Null
    /\ lineScan.method = "findColorBoxesInRow"
    /\ lineScan.pc = "scan"
    /\ lineScan.x >= lineScan.image.width
    /\ LET image == lineScan.image
           boxTop == lineScan.redBox.y
           boxBottom == lineScan.redBox.y + lineScan.redBox.height
           colorBoxWidth == image.width - lineScan.colorBoxStart
       IN  lineScan' =
               [lineScan EXCEPT
                   !.pc = "done",
                   !.colorBoxes =
                       IF lineScan.inColorBox /\ colorBoxWidth > 8
                       THEN Append(@,
                                [x        |-> lineScan.colorBoxStart,
                                 y        |-> boxTop,
                                 width    |-> colorBoxWidth,
                                 height   |-> lineScan.redBox.height,
                                 avgColor |-> sampleColorBoxRegion(
                                                  image, lineScan.colorBoxStart,
                                                  image.width, boxTop, boxBottom)])
                       ELSE @]
    /\ UNCHANGED coreVars
    /\ UNCHANGED <<swatchRun, referenceRun, boxScan, colorSample, pixel, rowScan, anchorScan>>

NextBoundaries ==
    \/ FindColorBoxBoundariesStep
    \/ FindColorBoxBoundariesEnd
    \/ FindColorBoxesInRowStep
    \/ FindColorBoxesInRowEnd
SpecBoundaries == InitBoundaries /\ [][NextBoundaries]_vars

LineScanDone == lineScan # Null /\ lineScan.pc = "done"
\* The policy of a scan: where it starts, what it takes for background, the
\* gap that closes a run, and the shortest run it keeps (widths above 8 in
\* the reference row).
ScanStartOf(scan) == IF scan.method = "findColorBoxesInRow" THEN 10 ELSE 0
GapOf(scan) ==
    IF scan.method = "findColorBoxesInRow" THEN 8
    ELSE IF scan.method = "findSwatchBoundariesInRow" THEN 10 ELSE 3
MinRunLengthOf(scan) == IF scan.method = "findColorBoxesInRow" THEN 9 ELSE 15
IsBackgroundAt(scan, x) ==
    IF scan.method = "findColorBoxesInRow"
    THEN referenceIsWhiteOrNearWhite(pixelAt(scan.image, x, scan.scanY))
    ELSE swatchIsWhiteOrNearWhite(pixelAt(scan.image, x, scan.scanY))
\* The runs of a scan line: from a non-background sample that no run before
\* it reaches, to the last non-background sample before a closing gap or
\* the end of the line.
RunsOf(scan) ==
    LET last == scan.image.width - 1
        starts == {x \in ScanStartOf(scan)..last :
                      /\ ~IsBackgroundAt(scan, x)
                      /\ \A j \in Max(ScanStartOf(scan), x - GapOf(scan))..(x - 1) :
                             IsBackgroundAt(scan, j)}
        ends == {x \in ScanStartOf(scan)..last :
                    /\ ~IsBackgroundAt(scan, x)
                    /\ \A j \in (x + 1)..Min(last, x + GapOf(scan)) :
                           IsBackgroundAt(scan, j)}
    IN  {run \in starts \X ends :
            /\ run[1] <= run[2]
            /\ \A e \in ends : ~(run[1] <= e /\ e < run[2])}
\* The intervals a finished scan emitted, first and last sample.
EmittedBy(scan) ==
    IF scan.method = "findColorBoxesInRow"
    THEN {<<scan.colorBoxes[k].x, scan.colorBoxes[k].x + scan.colorBoxes[k].width - 1>> :
             k \in 1..Len(scan.colorBoxes)}
    ELSE {<<scan.colorBoxes[k].startX, scan.colorBoxes[k].endX>> :
             k \in 1..Len(scan.colorBoxes)}

\* C22 as stated: the intervals emitted by a paired-policy scan are the
\* runs of its scan line of at least the minimum run length, each from the
\* first to the last non-background sample of its run, whether the run is
\* closed by a gap or by the end of the line; no other run is discarded.
C22_IntervalsAreTheLongRuns ==
    LineScanDone /\ lineScan.method \in {"findColorBoxBoundaries", "findColorBoxesInRow"} =>
        EmittedBy(lineScan) =
            {run \in RunsOf(lineScan) : run[2] - run[1] + 1 >= MinRunLengthOf(lineScan)}

(***************************************************************************)
(* SwatchExtractor: the swatches of a row                                  *)
(***************************************************************************)
\* Variant: a swatch that extends up to the start of the next one, that
\* start included.
swatchBoundaryThroughNextStart(swatchStarts, i, width) ==
    [startX |-> swatchStarts[i + 1],
     endX   |-> IF i < Len(swatchStarts) - 1 THEN swatchStarts[i + 2] ELSE width - 1]

\* The boundary the second pass of findSwatchBoundariesInRow makes of the
\* start of index i (from 0).
swatchBoundary(swatchStarts, i, width) ==
    [startX |-> swatchStarts[i + 1],
     endX   |-> IF i < Len(swatchStarts) - 1 THEN swatchStarts[i + 2] - 1 ELSE width - 1]

\* Scan lines of a row of swatches: up to three swatches, the first 109 or
\* 110 samples wide, separated by 9 to 11 and by 10 or 60 background
\* samples.
RowScanLines ==
    {<< <<3, White>>, <<first, Leaf>>, <<gap, White>>, <<second, Azure>>,
        <<between, White>>, <<third, Leaf>>, <<trail, White>> >> :
        first \in {109, 110}, gap \in {9, 10, 11}, second \in {0, 60},
        between \in {10, 60}, third \in {0, 110}, trail \in {0, 9, 10}}
RowImageHeight == 2

\* findSwatchBoundariesInRow is entered with a row of the page.
InitSwatchLineScan ==
    /\ lineScan \in
           {[method                 |-> "findSwatchBoundariesInRow",
             pc                     |-> "scan",
             image                  |-> LineImage(line, RowImageHeight),
             row                    |-> [startY |-> 0, endY |-> RowImageHeight,
                                         height |-> RowImageHeight],
             scanY                  |-> (2 * 0 + RowImageHeight) \div 2,
             currentX               |-> 0,
             inSwatch               |-> FALSE,
             consecutiveWhitePixels |-> 0,
             swatchStarts           |-> <<>>,
             i                      |-> 0,
             boundaries             |-> <<>>] : line \in RowScanLines}
    /\ swatchRun = Null
    /\ referenceRun = Null
    /\ boxScan = Null
    /\ colorSample = Null
    /\ pixel = Null
    /\ rowScan = Null
    /\ anchorScan = Null
InitSwatchBoundaries == CoreIdle /\ InitSwatchLineScan

\* One turn of the while loop of the first pass.
FindSwatchStartsStep ==
    /\ lineScan # Null
    /\ lineScan.method = "findSwatchBoundariesInRow"
    /\ lineScan.pc = "scan"
    /\ lineScan.currentX < lineScan.image.width
    /\ LET whiteSpaceGap == 10
           currentX == lineScan.currentX
           isWhite == swatchIsWhiteOrNearWhite(
                          pixelAt(lineScan.image, currentX, lineScan.scanY))
           counted == lineScan.consecutiveWhitePixels + 1
       IN  lineScan' =
               IF ~lineScan.inSwatch /\ ~isWhite
               THEN [lineScan EXCEPT !.inSwatch = TRUE,
                                     !.swatchStarts = Append(@, currentX),
                                     !.consecutiveWhitePixels = 0,
                                     !.currentX = @ + 1]
               ELSE IF lineScan.inSwatch /\ isWhite
               THEN IF counted >= whiteSpaceGap
                    THEN [lineScan EXCEPT !.inSwatch = FALSE,
                                          !.consecutiveWhitePixels = 0,
                                          !.currentX = @ + 1]
                    ELSE [lineScan EXCEPT !.consecutiveWhitePixels = counted,
                                          !.currentX = @ + 1]
               ELSE IF lineScan.inSwatch /\ ~isWhite
               THEN [lineScan EXCEPT !.consecutiveWhitePixels = 0,
                                     !.currentX = @ + 1]
               ELSE [lineScan EXCEPT !.currentX = @ + 1]
    /\ UNCHANGED coreVars
    /\ UNCHANGED <<swatchRun, referenceRun, boxScan, colorSample, pixel, rowScan, anchorScan>>

\* The first pass is over.
FindSwatchStartsEnd ==
    /\ lineScan # Null
    /\ lineScan.method = "findSwatchBoundariesInRow"
    /\ lineScan.pc = "scan"
    /\ lineScan.currentX >= lineScan.image.width
    /\ lineScan' = [lineScan EXCEPT !.pc = "boundaries"]
    /\ UNCHANGED coreVars
    /\ UNCHANGED <<swatchRun, referenceRun, boxScan, colorSample, pixel, rowScan, anchorScan>>

\* One turn of the for loop of the second pass.
CreateSwatchBoundary ==
    /\ lineScan # Null
    /\ lineScan.method = "findSwatchBoundariesInRow"
    /\ lineScan.pc = "boundaries"
    /\ lineScan.i < Len(lineScan.swatchStarts)
    /\ LET minSwatchWidth == 120
           boundary == swatchBoundary(lineScan.swatchStarts, lineScan.i,
                                      lineScan.image.width)
           swatchWidth == boundary.endX - boundary.startX + 1
       IN  lineScan' = [lineScan EXCEPT
                           !.boundaries = IF swatchWidth >= minSwatchWidth
                                          THEN Append(@, boundary) ELSE @,
                           !.i = @ + 1]
    /\ UNCHANGED coreVars
    /\ UNCHANGED <<swatchRun, referenceRun, boxScan, colorSample, pixel, rowScan, anchorScan>>

\* The second pass is over: the boundaries are returned.
ReturnSwatchBoundaries ==
    /\ lineScan # Null
    /\ lineScan.method = "findSwatchBoundariesInRow"
    /\ lineScan.pc = "boundaries"
    /\ lineScan.i >= Len(lineScan.swatchStarts)
    /\ lineScan' = [lineScan EXCEPT !.pc = "done"]
    /\ UNCHANGED coreVars
    /\ UNCHANGED <<swatchRun, referenceRun, boxScan, colorSample, pixel, rowScan, anchorScan>>

NextSwatchBoundaries ==
    \/ FindSwatchStartsStep
    \/ FindSwatchStartsEnd
    \/ CreateSwatchBoundary
    \/ ReturnSwatchBoundaries
SpecSwatchBoundaries == InitSwatchBoundaries /\ [][NextSwatchBoundaries]_vars

\* The starts of the scan line: the first non-background sample of the
\* line, and every non-background sample that follows at least 10
\* consecutive background samples.
StartsOfLine(scan) == {run[1] : run \in RunsOf(scan)}
\* The region of the k-th of the starts, up to the sample before the next
\* start, or up to the last sample of the line.
RegionOfStart(scan, start) ==
    LET later == {s \in StartsOfLine(scan) : s > start}
    IN  <<start, IF later = {} THEN scan.image.width - 1
                 ELSE (CHOOSE s \in later : \A t \in later : s <= t) - 1>>

\* C23: the boundaries returned for a row are the regions of the starts of
\* its scan line, each from its start to the sample before the next start
\* and the last to the end of the line, that are at least 120 wide; they
\* are in increasing order and pairwise disjoint, and every start but the
\* first has 10 background samples right before it.
C23_NextStartRegions ==
    LineScanDone /\ lineScan.method = "findSwatchBoundariesInRow" =>
        LET boundaries == lineScan.boundaries
            starts == lineScan.swatchStarts
        IN  /\ {starts[k] : k \in 1..Len(starts)} = StartsOfLine(lineScan)
            /\ \A k \in 1..(Len(starts) - 1) : starts[k] < starts[k + 1]
            /\ {<<boundaries[k].startX, boundaries[k].endX>> : k \in 1..Len(boundaries)}
                   = {region \in {RegionOfStart(lineScan, s) : s \in StartsOfLine(lineScan)} :
                         region[2] - region[1] + 1 >= 120}
            /\ \A k \in 1..(Len(boundaries) - 1) :
                   boundaries[k].endX < boundaries[k + 1].startX
            /\ \A k \in 1..Len(boundaries) : boundaries[k].startX <= boundaries[k].endX
            /\ \A k \in 2..Len(starts) :
                   \A x \in (starts[k] - 10)..(starts[k] - 1) :
                       /\ x > starts[k - 1]
                       /\ IsBackgroundAt(lineScan, x)

\* A row of three starts was scanned; the region of the second start is
\* narrower than 120 and left out, those of the first and third are
\* returned.
C23_Witness ==
    /\ LineScanDone
    /\ lineScan.method = "findSwatchBoundariesInRow"
    /\ Len(lineScan.swatchStarts) = 3
    /\ Len(lineScan.boundaries) = 2
    /\ lineScan.boundaries[1].startX = lineScan.swatchStarts[1]
    /\ lineScan.boundaries[1].endX = lineScan.swatchStarts[2] - 1
    /\ lineScan.boundaries[2].startX = lineScan.swatchStarts[3]
    /\ lineScan.boundaries[2].endX = lineScan.image.width - 1

(***************************************************************************)
(* ReferenceColorExtractor: the red anchor boxes                           *)
(***************************************************************************)
\* Variant: a pixel is taken for red on its red channel alone.
isBrightRedPixelByRedChannel(color) ==
    color.r > 180

\* isBrightRedPixel
isBrightRedPixel(color) ==
    color.r > 180 /\ color.g < 100 /\ color.b < 100

\* redPixelMatrix[y], as the set of the columns x of the left margin with
\* redPixelMatrix[y][x] true.
redPixelMatrix(image, leftMarginWidth, y) ==
    {x \in 0..(leftMarginWidth - 1) :
        /\ inBuffer(image, x, y)
        /\ isBrightRedPixel(pixelAt(image, x, y))}

\* Rows of a page of the given width: blank, red from column 2 to 8, red
\* from column 0 to 6, red in columns 3 and 4 alone, red far from the
\* margin.
AnchorRow(width, kind) ==
    CASE kind = "blank"  -> << <<width, White>> >>
      [] kind = "inset"  -> << <<2, White>>, <<7, AnchorRed>>, <<width - 9, White>> >>
      [] kind = "left"   -> << <<7, AnchorRed>>, <<width - 7, White>> >>
      [] kind = "narrow" -> << <<3, White>>, <<2, AnchorRed>>, <<width - 5, White>> >>
      [] kind = "far"    -> << <<30, White>>, <<10, AnchorRed>>, <<width - 40, White>> >>
AnchorRowKinds == {"blank", "inset", "left", "narrow", "far"}
\* A page of three bands of rows, each band of one kind of row.
BandedImage(width, bands) ==
    LET height == LengthOfStretches(bands)
    IN  [width  |-> width,
         height |-> height,
         rows   |-> [y \in 1..height |->
                        [stretches |-> AnchorRow(width, colorInStretches(bands, y - 1))]]]
AnchorImageWidths == {50, 100}
SampleAnchorImages ==
    {BandedImage(width, << <<a, k1>>, <<b, k2>>, <<c, k3>> >>) :
        width \in AnchorImageWidths,
        a \in {1, 8}, b \in {1, 7, 8}, c \in {0, 8},
        k1 \in AnchorRowKinds, k2 \in AnchorRowKinds, k3 \in AnchorRowKinds}

\* findRedAnchorBoxes is entered with a page; redPixelMatrix is a function
\* of the page, and the loop over the rows is about to start.
InitAnchorScan ==
    /\ anchorScan \in
           {[pc              |-> "rows",
             image           |-> image,
             leftMarginWidth |-> image.width \div 10,
             y               |-> 0,
             currentBox      |-> Null,
             redBoxes        |-> <<>>] : image \in SampleAnchorImages}
    /\ swatchRun = Null
    /\ referenceRun = Null
    /\ boxScan = Null
    /\ colorSample = Null
    /\ pixel = Null
    /\ rowScan = Null
    /\ lineScan = Null
InitAnchors == CoreIdle /\ InitAnchorScan

\* One turn of the loop that groups consecutive red rows into boxes.  The
\* quotient redPixelCount / leftMarginWidth is compared with 0.1 on
\* integers; with a margin of width 0 it is NaN and the comparison false.
GroupRedRow ==
    /\ anchorScan # Null
    /\ anchorScan.pc = "rows"
    /\ anchorScan.y < anchorScan.image.height
    /\ LET y == anchorScan.y
           row == redPixelMatrix(anchorScan.image, anchorScan.leftMarginWidth, y)
           redPixelCount == Cardinality(row)
           significant == /\ anchorScan.leftMarginWidth > 0
                          /\ 10 * redPixelCount > anchorScan.leftMarginWidth
           leftmostRed == CHOOSE x \in row : \A z \in row : x <= z
           rightmostRed == CHOOSE x \in row : \A z \in row : x >= z
           rowWidth == rightmostRed - leftmostRed + 1
           currentBox == anchorScan.currentBox
           ended == [anchorScan EXCEPT
                        !.redBoxes = IF currentBox.height >= 8
                                     THEN Append(@, currentBox) ELSE @,
                        !.currentBox = Null,
                        !.y = @ + 1]
       IN  anchorScan' =
               IF significant
               THEN IF rowWidth >= 5
                    THEN IF currentBox = Null
                         THEN [anchorScan EXCEPT
                                  !.currentBox = Box(leftmostRed, y, rowWidth, 1),
                                  !.y = @ + 1]
                         ELSE [anchorScan EXCEPT
                                  !.currentBox.width = Max(@, rowWidth),
                                  !.currentBox.height = @ + 1,
                                  !.y = @ + 1]
                    ELSE IF currentBox # Null THEN ended
                    ELSE [anchorScan EXCEPT !.y = @ + 1]
               ELSE IF currentBox # Null THEN ended
               ELSE [anchorScan EXCEPT !.y = @ + 1]
    /\ UNCHANGED coreVars
    /\ UNCHANGED <<swatchRun, referenceRun, boxScan, colorSample, pixel, rowScan, lineScan>>

\* The rows are done: the last box, and the return.
ReturnRedBoxes ==
    /\ anchorScan # Null
    /\ anchorScan.pc = "rows"
    /\ anchorScan.y >= anchorScan.image.height
    /\ anchorScan' =
           [anchorScan EXCEPT
               !.pc = "done",
               !.redBoxes = IF anchorScan.currentBox # Null
                               /\ anchorScan.currentBox.height >= 8
                            THEN Append(@, anchorScan.currentBox) ELSE @]
    /\ UNCHANGED coreVars
    /\ UNCHANGED <<swatchRun, referenceRun, boxScan, colorSample, pixel, rowScan, lineScan>>

NextAnchors ==
    \/ GroupRedRow
    \/ ReturnRedBoxes
SpecAnchors == InitAnchors /\ [][NextAnchors]_vars

AnchorScanDone == anchorScan # Null /\ anchorScan.pc = "done"
\* The anchor-coloured columns of row y in the left margin, the first tenth
\* of the width.
AnchorColumns(scan, y) ==
    {x \in 0..((scan.image.width \div 10) - 1) :
        LET color == pixelAt(scan.image, x, y)
        IN  color.r > 180 /\ color.g < 100 /\ color.b < 100}
\* The rows more than a tenth of whose left margin is anchor-coloured.
RowsAboveTenth(scan) ==
    {y \in 0..(scan.image.height - 1) :
        10 * Cardinality(AnchorColumns(scan, y)) > scan.image.width \div 10}
\* Of those, the rows whose anchor pixels span at least 5 columns.
RowsSpanningFive(scan) ==
    {y \in RowsAboveTenth(scan) :
        \E a \in AnchorColumns(scan, y) : \E b \in AnchorColumns(scan, y) : b - a + 1 >= 5}
\* The maximal runs of contiguous rows among the given rows, first and last.
MaximalRuns(rows) ==
    {run \in rows \X rows :
        /\ run[1] <= run[2]
        /\ \A y \in run[1]..run[2] : y \in rows
        /\ (run[1] - 1) \notin rows
        /\ (run[2] + 1) \notin rows}
\* The retained boxes as runs of rows, first and last.
RowsOfBoxes(scan) ==
    {<<scan.redBoxes[k].y, scan.redBoxes[k].y + scan.redBoxes[k].height - 1>> :
        k \in 1..Len(scan.redBoxes)}

\* C24 as stated: the retained anchor boxes are, one each, the maximal runs
\* of contiguous rows more than 10% of whose left margin is
\* anchor-coloured, that span at least 8 rows, and no other box is
\* retained.
C24_BoxPerRunAboveTenth ==
    AnchorScanDone =>
        /\ RowsOfBoxes(anchorScan) =
               {run \in MaximalRuns(RowsAboveTenth(anchorScan)) : run[2] - run[1] + 1 >= 8}
        /\ Cardinality(RowsOfBoxes(anchorScan)) = Len(anchorScan.redBoxes)

\* C24 amended: the retained anchor boxes are, one each, the maximal runs
\* of contiguous rows more than 10% of whose left margin is anchor-coloured
\* and whose anchor pixels span at least 5 columns, that span at least 8
\* rows, a run that reaches the last image row included; no other box is
\* retained.
C24_BoxPerRunOfWideRows ==
    AnchorScanDone =>
        /\ RowsOfBoxes(anchorScan) =
               {run \in MaximalRuns(RowsSpanningFive(anchorScan)) : run[2] - run[1] + 1 >= 8}
        /\ Cardinality(RowsOfBoxes(anchorScan)) = Len(anchorScan.redBoxes)

\* Two boxes were retained, the second reaching the last image row, and a
\* run of 8 rows above the tenth whose anchor pixels span 2 columns was
\* left out.
C24_Witness ==
    /\ AnchorScanDone
    /\ Len(anchorScan.redBoxes) = 2
    /\ anchorScan.redBoxes[2].y + anchorScan.redBoxes[2].height = anchorScan.image.height
    /\ \E run \in MaximalRuns(RowsAboveTenth(anchorScan)) :
           /\ run[2] - run[1] + 1 >= 8
           /\ run \notin RowsOfBoxes(anchorScan)

\* C25 as stated: the horizontal extent of every retained anchor box is the
\* union of the anchor-pixel spans of its rows: x is the least leftmost
\* anchor pixel of its rows and x + width - 1 the greatest rightmost one.
C25_BoxSpansItsRows ==
    AnchorScanDone =>
        \A k \in 1..Len(anchorScan.redBoxes) :
            LET box == anchorScan.redBoxes[k]
                columns == UNION {AnchorColumns(anchorScan, y) :
                                     y \in box.y..(box.y + box.height - 1)}
            IN  /\ box.x \in columns
                /\ (box.x + box.width - 1) \in columns
                /\ \A x \in columns : box.x <= x /\ x <= box.x + box.width - 1

(***************************************************************************)
(* A region without a non-background pixel                                 *)
(***************************************************************************)
\* Every pixel of the sampled region, the whole image, is background for
\* the test of the sampler.
RegionAllBackground(image, isBackground(_)) ==
    \A x \in 0..(image.width - 1) : \A y \in 0..(image.height - 1) :
        isBackground(pixelAt(image, x, y))
notColorBoxPixel(color) == ~isColorBoxPixel(color)
\* The pixel at the centre of the region.
CentrePixel(image) ==
    pixelAt(image, RoundDiv(image.width, 2), RoundDiv(image.height, 2))

\* C26 as stated: when the sampled region holds no non-background pixel,
\* each of the three samplers, of the reference row, of the
\* percentage-based detection and of the swatch colour box, yields the
\* colour of the centre pixel of the region, and none drops the region.
C26_CentrePixelOfBlankRegion ==
    colorSample # Null =>
        LET image == colorSample.image
        IN  /\ ("reference" \in colorSample.done
                  /\ ~colorSample.given.regionThrows
                  /\ RegionAllBackground(image, referenceIsWhiteOrNearWhite)) =>
                   /\ colorSample.referenceColor # Null
                   /\ colorSample.referenceColor.rgb = CentrePixel(image)
            /\ ("percentage" \in colorSample.done
                  /\ RegionAllBackground(image, notColorBoxPixel)) =>
                   colorSample.averageColor = CentrePixel(image)
            /\ ("swatch" \in colorSample.done
                  /\ RegionAllBackground(image, swatchIsWhiteOrNearWhite)) =>
                   /\ colorSample.colorBox # Null
                   /\ colorSample.colorBox.rgb = CentrePixel(image)

(***************************************************************************)
(* The two strategies of the reference extraction                          *)
(***************************************************************************)
\* A region made by the anchor path lies in the rows of an anchor box; one
\* made by the fallback path lies below its colour box and is 15% of the
\* image height high.
RegionOfAnchorPath(region) ==
    \E k \in 1..Len(referenceRun.redAnchorBoxes) :
        /\ region.boundingBox.y = referenceRun.redAnchorBoxes[k].y
        /\ region.boundingBox.height = referenceRun.redAnchorBoxes[k].height
RegionOfFallbackPath(region) ==
    region.boundingBox.height = RoundDiv(ImageHeight * 15, 100)

\* C27: the percentage-based detection is used if and only if the anchor
\* detection returned no anchor box.  With an anchor box every region
\* handled, and so every entry returned, is of the anchor path, even when
\* no entry is returned; without one every region is of the fallback path
\* and the returned list of anchor boxes is empty; no run has regions of
\* both.
C27_FallbackIffNoAnchor ==
    referenceRun # Null =>
        LET anchors == Len(referenceRun.redAnchorBoxes)
            regions == referenceRun.regions
        IN  /\ referenceRun.pc = "fallback" => anchors = 0
            /\ referenceRun.pc \in {"rows", "row"} => anchors > 0
            /\ anchors > 0 =>
                   \A k \in 1..Len(regions) :
                       RegionOfAnchorPath(regions[k]) /\ ~RegionOfFallbackPath(regions[k])
            /\ anchors = 0 =>
                   \A k \in 1..Len(regions) :
                       RegionOfFallbackPath(regions[k]) /\ ~RegionOfAnchorPath(regions[k])
            /\ ReferenceRunDone =>
                   /\ referenceRun.returned.redAnchorBoxes = referenceRun.redAnchorBoxes
                   /\ (anchors = 0) <=> (referenceRun.returned.redAnchorBoxes = <<>>)
                   /\ referenceRun.returned.referenceColors = referenceRun.referenceColors
                   /\ \A e \in 1..Len(referenceRun.returned.referenceColors) :
                          \E k \in 1..Len(regions) :
                              regions[k].boundingBox =
                                  referenceRun.returned.referenceColors[e].boundingBox

\* A run with an anchor box ended with no reference entry although a
\* region was handled: the fallback was not used.
C27_Witness ==
    /\ ReferenceRunDone
    /\ Len(referenceRun.redAnchorBoxes) > 0
    /\ Len(referenceRun.regions) > 0
    /\ referenceRun.returned.referenceColors = <<>>
    /\ referenceRun.returned.redAnchorBoxes # <<>>

(***************************************************************************)
(* detectRows: termination and the order of the rows                       *)
(***************************************************************************)
\* detectRows runs on: weak fairness of a turn of its loop, WF_vars(NextRows),
\* written out as []<>~ENABLED <<NextRows>>_vars \/ []<><<NextRows>>_vars
\* with its first disjunct stated by the position of the scan, a turn or
\* the return being enabled exactly until detectRows has returned.
SpecRowsFair == SpecRows /\ ([]<>RowScanDone \/ []<><<NextRows>>_vars)

\* The first non-background sample of the column at or below row y.
FirstSampleFrom(column, y) ==
    LET nonWhite == {z \in y..(column.height - 1) :
                        ~swatchIsWhiteOrNearWhite(columnPixel(column, z))}
    IN  CHOOSE first \in nonWhite : \A other \in nonWhite : first <= other
\* A turn of the loop that does not leave it pushes a row that ends at or
\* below the first non-background sample that started it, and moves
\* currentY down.
TurnMovesDown ==
    (rowScan # Null /\ rowScan.pc = "end" /\ rowScan'.pc = "start") =>
        /\ rowScan'.currentY > rowScan.currentY
        /\ Len(rowScan'.rows) = Len(rowScan.rows) + 1
        /\ rowScan'.rows[Len(rowScan'.rows)].endY
               >= FirstSampleFrom(rowScan.column, rowScan.currentY)
        /\ rowScan'.rows[Len(rowScan'.rows)].startY
               >= FirstSampleFrom(rowScan.column, rowScan.currentY) - 45

C30_ValidationIdempotent ==
    revalidation # Null =>
        /\ revalidation.corrections = <<>>
        /\ revalidation.isValid
        /\ revalidation.summary.corrections = 0
        /\ Len(correctedColors.some) = Len(extractedColors)
        /\ \A i \in 1..Len(extractedColors) :
               /\ i \in CorrectedIndices => ~IsOcrFailureEntry(correctedColors.some[i])
               /\ (IsOcrFailureEntry(extractedColors[i])
                     /\ ~WithinTolerance(extractedColors[i].boundingBox.x)) =>
                      /\ correctedColors.some[i] = extractedColors[i]
                      /\ i \notin CorrectedIndices
               /\ i \notin CorrectedIndices => correctedColors.some[i] = extractedColors[i]

\* A list with a corrected entry and a flagged entry out of reach of the
\* table was validated a second time.
C30_Witness ==
    /\ revalidation # Null
    /\ ~validationResult.isValid
    /\ \E i \in 1..Len(extractedColors) : i \in CorrectedIndices
    /\ \E i \in 1..Len(extractedColors) :
           /\ IsOcrFailureEntry(extractedColors[i])
           /\ ~WithinTolerance(extractedColors[i].boundingBox.x)

====
